---- MODULE Spec2Model ----
(***************************************************************************)
(* A model of the decoders of AthensBuses:                                 *)
(*   - the OASTH telematics client (src/unnamed/part_000): decompressGzip, *)
(*     parseTupleFormat, fetchAPI, the entity mappers, getRoutesForStop,   *)
(*     getClosestStops;                                                    *)
(*   - the ATH.ENA card decoders (src/app/(tabs)/ticket.tsx):              *)
(*     parseDESFireVersion, parseAthenaTicketData;                         *)
(*   - the scan effect of the ticket screen (src/app/(tabs)/ticket.tsx):   *)
(*     startScan, readWithIsoDep, the restart timer and the cleanup.       *)
(* A JavaScript string is a sequence of one-character strings, so that the *)
(* regular expressions, trim(), startsWith() and JSON.parse act on the     *)
(* characters as the code does.                                            *)
(***************************************************************************)
EXTENDS Integers, Sequences, FiniteSets, TLC

VARIABLES
    tuplePc,      \* parseTupleFormat harness: "build" | "done"
    tupleIn,      \* the groups the server put in the text (sequence of sequences of fields)
    tupleText,    \* the text handed to parseTupleFormat
    tupleRows,    \* the rows parseTupleFormat returned
    fetchPc,      \* fetchAPI: "call" | "awaitFetch" | "awaitBody" | "done"
    fetchPath,    \* how the request went: "" | "neterr" | "notok" | "bodyerr" | "body"
    fetchData,    \* the response body handed to decompressGzip
    fetchText,    \* the text decompressGzip returned
    fetchOut,     \* the settlement of the promise fetchAPI returned
    mapPc,        \* an entity mapper: "call" | "fetched" | "done"
    mapIn,        \* what the server answered (the shape of the body)
    mapFetched,   \* the value its fetchAPI call resolved to
    mapFn,        \* the mapper that ran
    mapOut,       \* what it returned, or that it threw
    stopsPc,      \* getClosestStops: "call" | "await" | "done"
    stopsRef,     \* its arguments <<lat, lng>>, in degrees
    stopsIn,      \* the coordinates of the stops the server lists
    stopsOut,     \* what it returned
    ticketPc,     \* the ticket decoder: "scan" | "read" | "parsed" | "again"
    ticketIn,     \* the arguments of parseAthenaTicketData, the clock and the zone
    ticketOut,    \* the TicketInfo it returned
    versionPc,    \* the version decoder: "scan" | "read" | "parsed"
    versionIn,    \* the bytes the card answered to the version command
    versionOut,   \* what parseDESFireVersion returned
    tupleAgain,   \* the rows of a second parseTupleFormat call on the same text
    versionAgain, \* what a second parseDESFireVersion call on the same bytes returned
    ticketFirst,  \* the first of two parseAthenaTicketData calls on the same arguments: its clock and result
    isMounted,    \* the scan effect: isMounted of each effect instance (line 591)
    scanTimeout,  \* the restart timers of each instance that are pending (lines 592, 1248)
    scanPc,       \* where the startScan call of each instance stands
    scanRead,     \* the locals of its readWithIsoDep call (lines 609-612) and the command awaited
    nfcPending,   \* the instance whose requestTechnology is pending, 0 when none is
    nfcHolder,    \* the instance whose IsoDep session has the card in reach, 0 when none has
    isScanning,   \* screen state, line 526
    ticketInfo,   \* screen state, line 527
    error,        \* screen state, line 528
    scanDecoded   \* what the decoders were last called on by startScan (lines 1190-1200)

tupleVars == <<tuplePc, tupleIn, tupleText, tupleRows>>
fetchVars == <<fetchPc, fetchPath, fetchData, fetchText, fetchOut>>
mapVars == <<mapPc, mapIn, mapFetched, mapFn, mapOut>>
stopsVars == <<stopsPc, stopsRef, stopsIn, stopsOut>>
ticketVars == <<ticketPc, ticketIn, ticketOut>>
versionVars == <<versionPc, versionIn, versionOut>>
againVars == <<tupleAgain, versionAgain, ticketFirst>>
screenVars == <<isScanning, ticketInfo, error>>
scanVars == <<isMounted, scanTimeout, scanPc, scanRead, nfcPending, nfcHolder, screenVars,
              scanDecoded>>

vars == <<tupleVars, fetchVars, mapVars, stopsVars, ticketVars, versionVars, againVars,
          scanVars>>

\* What the operations of one part leave alone.
tupleOthers == <<fetchVars, mapVars, stopsVars, ticketVars, versionVars, againVars, scanVars>>
fetchOthers == <<tupleVars, mapVars, stopsVars, ticketVars, versionVars, againVars, scanVars>>
mapOthers == <<tupleVars, fetchVars, stopsVars, ticketVars, versionVars, againVars, scanVars>>
stopsOthers == <<tupleVars, fetchVars, mapVars, ticketVars, versionVars, againVars, scanVars>>
ticketOthers == <<tupleVars, fetchVars, mapVars, stopsVars, versionVars, againVars, scanVars>>
versionOthers == <<tupleVars, fetchVars, mapVars, stopsVars, ticketVars, againVars, scanVars>>
scanOthers == <<tupleVars, fetchVars, mapVars, stopsVars, ticketVars, versionVars, againVars>>

----------------------------------------------------------------------------
(* Characters and strings *)

Digits == {"0", "1", "2", "3", "4", "5", "6", "7", "8", "9"}

IsDigit(c) == c \in Digits

\* String.prototype.trim removes white space and line terminators.
IsSpace(c) == c \in {" ", "\n", "\t", "\r"}

\* s.slice(from - 1): the characters of s from position from on.
Drop(s, from) == IF from > Len(s) THEN <<>> ELSE SubSeq(s, from, Len(s))

\* The smallest k >= from with s[k] = c, or 0 when there is none.
RECURSIVE IndexOf(_, _, _)
IndexOf(s, c, from) ==
    IF from > Len(s) THEN 0
    ELSE IF s[from] = c THEN from
    ELSE IndexOf(s, c, from + 1)

\* The first position >= from that holds no digit (Len(s) + 1 at the end).
RECURSIVE DigitsEnd(_, _)
DigitsEnd(s, from) ==
    IF from > Len(s) THEN from
    ELSE IF IsDigit(s[from]) THEN DigitsEnd(s, from + 1)
    ELSE from

\* s has the characters of lit at position from.
HasAt(s, from, lit) ==
    /\ from + Len(lit) - 1 <= Len(s)
    /\ SubSeq(s, from, from + Len(lit) - 1) = lit

NoneLit == <<"N", "o", "n", "e">>
NullLit == <<"n", "u", "l", "l">>

\* Array.prototype.join
RECURSIVE Join(_, _)
Join(ss, sep) ==
    IF ss = <<>> THEN <<>>
    ELSE IF Len(ss) = 1 THEN Head(ss)
    ELSE Head(ss) \o sep \o Join(Tail(ss), sep)

----------------------------------------------------------------------------
(* parseTupleFormat, src/unnamed/part_000:44-75 *)

NoMatch == [ok |-> FALSE, end |-> 0, val |-> <<>>]

\* -?\d+\.?\d* at position p: an optional minus, digits, an optional point,
\* digits. Every quantifier is greedy and none has to give back.
NumberAt(s, p) ==
    LET d  == IF p <= Len(s) /\ s[p] = "-" THEN p + 1 ELSE p
        e1 == DigitsEnd(s, d)
        e2 == IF e1 <= Len(s) /\ s[e1] = "." THEN DigitsEnd(s, e1 + 1) ELSE e1
    IN  IF e1 > d
        THEN [ok |-> TRUE, end |-> e2, val |-> SubSeq(s, p, e2 - 1)]
        ELSE NoMatch

\* ValueAt without the None/null branch of line 62: the keyword is pushed verbatim.
ValueAt_KeywordVerbatim(s, p) ==
    LET q == IF s[p] = "\"" THEN IndexOf(s, "\"", p + 1) ELSE 0
        n == NumberAt(s, p)
    IN  IF q > 0 THEN [ok |-> TRUE, end |-> q + 1, val |-> SubSeq(s, p + 1, q - 1)]
        ELSE IF n.ok THEN n
        ELSE IF HasAt(s, p, NoneLit) THEN [ok |-> TRUE, end |-> p + 4, val |-> NoneLit]
        ELSE IF HasAt(s, p, NullLit) THEN [ok |-> TRUE, end |-> p + 4, val |-> NullLit]
        ELSE NoMatch

\* One attempt of valueRegex /"([^"]*)"|-?\d+\.?\d*|None|null/ at position p,
\* with the value the loop body pushes for it (lines 60-66).
ValueAt(s, p) ==
    LET q == IF s[p] = "\"" THEN IndexOf(s, "\"", p + 1) ELSE 0
        n == NumberAt(s, p)
    IN  IF q > 0 THEN [ok |-> TRUE, end |-> q + 1, val |-> SubSeq(s, p + 1, q - 1)]
        ELSE IF n.ok THEN n
        ELSE IF HasAt(s, p, NoneLit) THEN [ok |-> TRUE, end |-> p + 4, val |-> <<>>]
        ELSE IF HasAt(s, p, NullLit) THEN [ok |-> TRUE, end |-> p + 4, val |-> <<>>]
        ELSE NoMatch

\* The inner while loop: valueRegex.exec from lastIndex p until it returns null.
RECURSIVE ScanValues(_, _)
ScanValues(s, p) ==
    IF p > Len(s) THEN <<>>
    ELSE LET m == ValueAt(s, p)
         IN  IF m.ok THEN <<m.val>> \o ScanValues(s, m.end)
             ELSE ScanValues(s, p + 1)

\* One attempt of tupleRegex /\(([^)]+)\)/ at position i: "(", then every
\* character up to the first ")", at least one.
TupleAt(s, i) ==
    LET j == IF s[i] = "(" THEN IndexOf(s, ")", i + 1) ELSE 0
    IN  IF j > i + 1
        THEN [ok |-> TRUE, end |-> j + 1, val |-> SubSeq(s, i + 1, j - 1)]
        ELSE NoMatch

\* The row kept for one group: none when it holds no value (line 69).
RowsOfGroup(values) == IF Len(values) > 0 THEN <<values>> ELSE <<>>

\* The outer while loop: tupleRegex.exec from lastIndex i.
RECURSIVE ScanTuples(_, _)
ScanTuples(s, i) ==
    IF i > Len(s) THEN <<>>
    ELSE LET m == TupleAt(s, i)
         IN  IF m.ok THEN RowsOfGroup(ScanValues(m.val, 1)) \o ScanTuples(s, m.end)
             ELSE ScanTuples(s, i + 1)

parseTupleFormat(text) == ScanTuples(text, 1)

----------------------------------------------------------------------------
(* The tuple text a server writes: groups of fields *)

MaxTokens == 3
MaxGroups == 2

Quoted(body) == [kind |-> "str", lit |-> <<"\"">> \o body \o <<"\"">>]
Number(digits) == [kind |-> "num", lit |-> digits]
Keyword(word) == [kind |-> "nil", lit |-> word]

PlainFields ==
    { Quoted(<<"a">>), Quoted(<<>>), Quoted(<<"x", "(">>),
      Number(<<"1">>), Number(<<"-", "2", ".", "5">>),
      Keyword(NoneLit), Keyword(NullLit) }

\* A quoted string that holds a closing parenthesis, as in a stop name "A (B)".
ParenFields == { Quoted(<<"b", ")">>) }

Fields == PlainFields \cup ParenFields

RenderGroup(g) == <<"(">> \o Join([k \in 1..Len(g) |-> g[k].lit], <<",", " ">>) \o <<")">>

RenderTuples(gs) == Join([k \in 1..Len(gs) |-> RenderGroup(gs[k])], <<",", " ">>)

\* (1, "a", None), (2, "b", 3)
ExampleGroups ==
    << <<Number(<<"1">>), Quoted(<<"a">>), Keyword(NoneLit)>>,
       <<Number(<<"2">>), Quoted(<<"b">>), Number(<<"3">>)>> >>

RECURSIVE TokenCount(_)
TokenCount(gs) == IF gs = <<>> THEN 0 ELSE Len(Head(gs)) + TokenCount(Tail(gs))

TupleInit ==
    /\ tuplePc = "build"
    /\ tupleIn \in {<<>>, ExampleGroups}
    /\ tupleText = <<>>
    /\ tupleRows = <<>>

\* The server opens another group.
TupleNewGroup ==
    /\ tuplePc = "build"
    /\ Len(tupleIn) < MaxGroups
    /\ tupleIn' = Append(tupleIn, <<>>)
    /\ UNCHANGED <<tuplePc, tupleText, tupleRows>>
    /\ UNCHANGED tupleOthers

\* The server writes another field into the last group.
TupleNewField ==
    /\ tuplePc = "build"
    /\ tupleIn # <<>>
    /\ TokenCount(tupleIn) < MaxTokens
    /\ \E f \in Fields :
         tupleIn' = [tupleIn EXCEPT ![Len(tupleIn)] = Append(@, f)]
    /\ UNCHANGED <<tuplePc, tupleText, tupleRows>>
    /\ UNCHANGED tupleOthers

\* parseTupleFormat(text) on the text of the groups.
TupleParse ==
    /\ tuplePc = "build"
    /\ tuplePc' = "done"
    /\ tupleText' = RenderTuples(tupleIn)
    /\ tupleRows' = parseTupleFormat(RenderTuples(tupleIn))
    /\ UNCHANGED tupleIn
    /\ UNCHANGED tupleOthers

\* parseTupleFormat(text) once more on the same text: the regular expressions
\* are made anew by every call (lines 48 and 56), no match position is kept.
TupleParseAgain ==
    /\ tuplePc = "done"
    /\ tuplePc' = "again"
    /\ tupleAgain' = parseTupleFormat(tupleText)
    /\ UNCHANGED <<tupleIn, tupleText, tupleRows, versionAgain, ticketFirst>>
    /\ UNCHANGED <<fetchVars, mapVars, stopsVars, ticketVars, versionVars, scanVars>>

TupleNext == TupleNewGroup \/ TupleNewField \/ TupleParse \/ TupleParseAgain

TupleIdle == tuplePc = "off" /\ tupleIn = <<>> /\ tupleText = <<>> /\ tupleRows = <<>>

----------------------------------------------------------------------------
(* parseTupleFormat: what the text's groups stand for *)

\* The value a field stands for: a quoted string without its quotes, a number
\* verbatim, None and null as the empty string.
FieldValue(f) ==
    IF f.kind = "str" THEN SubSeq(f.lit, 2, Len(f.lit) - 1)
    ELSE IF f.kind = "num" THEN f.lit
    ELSE <<>>

\* One row per group that holds a field, in text order.
RECURSIVE ExpectedRows(_)
ExpectedRows(gs) ==
    IF gs = <<>> THEN <<>>
    ELSE (IF Len(Head(gs)) > 0
          THEN << [k \in 1..Len(Head(gs)) |-> FieldValue(Head(gs)[k])] >>
          ELSE <<>>) \o ExpectedRows(Tail(gs))

\* No quoted string of the groups holds a closing parenthesis.
NoParenInStrings(gs) ==
    \A i \in 1..Len(gs) : \A k \in 1..Len(gs[i]) : gs[i][k] \notin ParenFields

\* C3 as stated: on text made of non-nested groups of quoted strings, numbers
\* and None/null, parseTupleFormat returns one row per non-empty group, the
\* fields in order, quotes stripped, numbers verbatim, None/null as "".
C3_AsStated ==
    tuplePc = "done" => tupleRows = ExpectedRows(tupleIn)

\* C3 amended: the same, for text whose quoted strings hold no ")" (the first
\* ")" after "(" ends the group, also inside a quoted string); and for every
\* text, each returned row has at least one field.
C3_TupleRows ==
    tuplePc = "done" =>
        /\ \A r \in 1..Len(tupleRows) : Len(tupleRows[r]) > 0
        /\ NoParenInStrings(tupleIn) => tupleRows = ExpectedRows(tupleIn)

\* (1, "a", None), (2, "b", 3) gives [["1","a",""],["2","b","3"]].
C3_Witness ==
    /\ tuplePc = "done"
    /\ tupleIn = ExampleGroups
    /\ tupleRows = << << <<"1">>, <<"a">>, <<>> >>, << <<"2">>, <<"b">>, <<"3">> >> >>

----------------------------------------------------------------------------
(* JavaScript values: a tag t and a payload v *)

JsStr(chars) == [t |-> "str", v |-> chars]
JsNum(n) == [t |-> "num", v |-> n]
JsBool(b) == [t |-> "bool", v |-> b]
JsArr(items) == [t |-> "arr", v |-> items]
\* An object is the sequence of its <<key, value>> members in source order.
JsObj(members) == [t |-> "obj", v |-> members]
JsNull == [t |-> "null", v |-> <<>>]
JsUndefined == [t |-> "undef", v |-> <<>>]

\* string[][] as a JavaScript value.
RowsValue(rows) ==
    JsArr([r \in 1..Len(rows) |->
             JsArr([k \in 1..Len(rows[r]) |-> JsStr(rows[r][k])])])

----------------------------------------------------------------------------
(* JSON.parse (ECMA-404) on the characters of the text. Bodies of this model *)
(* hold no backslash, fraction or exponent, so those forms are not parsed.   *)

JsonFail == [ok |-> FALSE, end |-> 0, val |-> JsUndefined]

JsonOk(end, val) == [ok |-> TRUE, end |-> end, val |-> val]

RECURSIVE SkipWs(_, _)
SkipWs(s, p) ==
    IF p <= Len(s) /\ IsSpace(s[p]) THEN SkipWs(s, p + 1) ELSE p

DigitValue(c) == CHOOSE n \in 0..9 : <<"0", "1", "2", "3", "4", "5", "6", "7", "8", "9">>[n + 1] = c

RECURSIVE DigitsValue(_)
DigitsValue(ds) ==
    IF ds = <<>> THEN 0
    ELSE 10 * DigitsValue(SubSeq(ds, 1, Len(ds) - 1)) + DigitValue(ds[Len(ds)])

\* "..." at position p (s[p] is the opening quote).
JsonString(s, p) ==
    LET q == IndexOf(s, "\"", p + 1)
    IN  IF q = 0 THEN JsonFail
        ELSE IF \E k \in p + 1..q - 1 : s[k] \in {"\n", "\r", "\t", "\\"} THEN JsonFail
        ELSE JsonOk(q + 1, JsStr(SubSeq(s, p + 1, q - 1)))

\* -?(0|[1-9][0-9]*) at position p.
JsonNumber(s, p) ==
    LET d == IF s[p] = "-" THEN p + 1 ELSE p
        e == DigitsEnd(s, d)
    IN  IF e = d THEN JsonFail
        ELSE IF s[d] = "0" /\ e > d + 1 THEN JsonFail
        ELSE IF e <= Len(s) /\ s[e] \in {".", "e", "E"} THEN JsonFail
        ELSE JsonOk(e, JsNum((IF d > p THEN -1 ELSE 1) * DigitsValue(SubSeq(s, d, e - 1))))

RECURSIVE JsonValue(_, _)
RECURSIVE JsonElements(_, _, _)
RECURSIVE JsonMembers(_, _, _)

\* The elements of an array from position p on, after acc.
JsonElements(s, p, acc) ==
    LET m == JsonValue(s, p)
        q == SkipWs(s, m.end)
    IN  IF ~m.ok \/ q > Len(s) THEN JsonFail
        ELSE IF s[q] = "," THEN JsonElements(s, q + 1, Append(acc, m.val))
        ELSE IF s[q] = "]" THEN JsonOk(q + 1, JsArr(Append(acc, m.val)))
        ELSE JsonFail

\* The members of an object from position p on, after acc.
JsonMembers(s, p, acc) ==
    LET k  == SkipWs(s, p)
        ks == IF k <= Len(s) /\ s[k] = "\"" THEN JsonString(s, k) ELSE JsonFail
        c  == SkipWs(s, ks.end)
        m  == IF ks.ok /\ c <= Len(s) /\ s[c] = ":" THEN JsonValue(s, c + 1) ELSE JsonFail
        q  == SkipWs(s, m.end)
    IN  IF ~m.ok \/ q > Len(s) THEN JsonFail
        ELSE IF s[q] = "," THEN JsonMembers(s, q + 1, Append(acc, <<ks.val.v, m.val>>))
        ELSE IF s[q] = "}" THEN JsonOk(q + 1, JsObj(Append(acc, <<ks.val.v, m.val>>)))
        ELSE JsonFail

JsonValue(s, p0) ==
    LET p == SkipWs(s, p0)
    IN  IF p > Len(s) THEN JsonFail
        ELSE IF s[p] = "[" THEN
            (LET q == SkipWs(s, p + 1)
             IN  IF q <= Len(s) /\ s[q] = "]" THEN JsonOk(q + 1, JsArr(<<>>))
                 ELSE JsonElements(s, p + 1, <<>>))
        ELSE IF s[p] = "{" THEN
            (LET q == SkipWs(s, p + 1)
             IN  IF q <= Len(s) /\ s[q] = "}" THEN JsonOk(q + 1, JsObj(<<>>))
                 ELSE JsonMembers(s, p + 1, <<>>))
        ELSE IF s[p] = "\"" THEN JsonString(s, p)
        ELSE IF s[p] = "-" \/ IsDigit(s[p]) THEN JsonNumber(s, p)
        ELSE IF HasAt(s, p, NullLit) THEN JsonOk(p + 4, JsNull)
        ELSE IF HasAt(s, p, <<"t", "r", "u", "e">>) THEN JsonOk(p + 4, JsBool(TRUE))
        ELSE IF HasAt(s, p, <<"f", "a", "l", "s", "e">>) THEN JsonOk(p + 5, JsBool(FALSE))
        ELSE JsonFail

\* JSON.parse(text): ok = FALSE stands for the SyntaxError it throws.
JsonParse(s) ==
    LET m == JsonValue(s, 1)
    IN  IF m.ok /\ SkipWs(s, m.end) > Len(s) THEN [ok |-> TRUE, val |-> m.val]
        ELSE [ok |-> FALSE, val |-> JsUndefined]

----------------------------------------------------------------------------
(* decompressGzip, src/unnamed/part_000:26-38 *)

\* A response body is its bytes and what pako.ungzip makes of them. A byte is
\* its ASCII character, or one of the gzip magic bytes "1F" and "8B".
Body(bytes, inflated) == [bytes |-> bytes, inflated |-> inflated]

Inflates(text) == [ok |-> TRUE, text |-> text]
InflateThrows == [ok |-> FALSE, text |-> <<>>]

GzipMagic == <<"1F", "8B">>

\* new TextDecoder('utf-8').decode(data): 0x1F is U+001F; 0x8B before an ASCII
\* byte or at the end is malformed and becomes U+FFFD; ASCII is itself.
Utf8Char(b) == IF b = "1F" THEN "U+001F" ELSE IF b = "8B" THEN "U+FFFD" ELSE b

TextDecode(bytes) == [k \in 1..Len(bytes) |-> Utf8Char(bytes[k])]

HasGzipMagic(data) ==
    Len(data.bytes) >= 2 /\ data.bytes[1] = "1F" /\ data.bytes[2] = "8B"

decompressGzip(data) ==
    IF HasGzipMagic(data) /\ data.inflated.ok THEN data.inflated.text
    ELSE TextDecode(data.bytes)

----------------------------------------------------------------------------
(* fetchAPI, src/unnamed/part_000:80-121 *)

Resolved(val) == [settled |-> "resolved", val |-> val]
Rejected == [settled |-> "rejected", val |-> JsUndefined]
Pending == [settled |-> "pending", val |-> JsUndefined]

\* text.trim()
RECURSIVE TrimEnd(_)
TrimEnd(s) ==
    IF s # <<>> /\ IsSpace(s[Len(s)]) THEN TrimEnd(SubSeq(s, 1, Len(s) - 1)) ELSE s

Trim(s) == TrimEnd(Drop(s, SkipWs(s, 1)))

\* The condition of line 99.
IsEmptyText(text) ==
    \/ text = <<>>
    \/ Trim(text) = <<>>
    \/ text = NullLit
    \/ text = <<"[", "]">>
    \/ text = <<"(", ")">>

\* Line 105 without the sniff: JSON.parse is tried on every text.
LooksLikeJson_Always(text) == TRUE

\* The condition of line 105.
LooksLikeJson(text) ==
    LET trimmed == Trim(text)
    IN  trimmed # <<>> /\ trimmed[1] \in {"[", "{"}

\* Line 100 returning null for "no data".
fetchAPI_Empty_Null == JsNull

\* Line 100: the value returned for an empty text.
fetchAPI_Empty == JsArr(<<>>)

\* Lines 117-120 logging the error and throwing it again.
fetchAPI_Catch_Rethrow == Rejected

\* Lines 117-120: the catch of fetchAPI.
fetchAPI_Catch == Resolved(JsArr(<<>>))

\* Lines 103-115 without the inner try: the SyntaxError of JSON.parse reaches
\* the catch of line 117.
fetchAPI_Parse_NoInnerTry(text) ==
    IF LooksLikeJson(text)
    THEN (IF JsonParse(text).ok THEN JsonParse(text).val ELSE JsArr(<<>>))
    ELSE RowsValue(parseTupleFormat(text))

\* Lines 103-115: JSON first, then the tuple format.
fetchAPI_Parse(text) ==
    IF LooksLikeJson(text) /\ JsonParse(text).ok THEN JsonParse(text).val
    ELSE RowsValue(parseTupleFormat(text))

\* Lines 97-115: from the bytes of the body to the value returned.
fetchAPI_Decode(data) ==
    LET text == decompressGzip(data)
    IN  IF IsEmptyText(text) THEN fetchAPI_Empty ELSE fetchAPI_Parse(text)

MaxBodyLen == 3

BodyChars == {"(", ")", "[", "]", "{", "}", "1", "\"", " "}

\* (1, "a", None), (2, "b", 3)
ExampleText == RenderTuples(ExampleGroups)

\* {(1)}: opens like JSON, is not JSON, holds a tuple.
BracedTuple == <<"{", "(", "1", ")", "}">>

Payloads ==
    UNION {[1..n -> BodyChars] : n \in 0..MaxBodyLen}
      \cup {NullLit, ExampleText, BracedTuple}

\* Plain text; a sound gzip stream of a text; a gzip header before bytes that
\* pako rejects.
Bodies ==
    {Body(p, InflateThrows) : p \in Payloads}
      \cup {Body(GzipMagic, Inflates(p)) : p \in Payloads}
      \cup {Body(GzipMagic \o p, InflateThrows) : p \in Payloads}

NoBody == Body(<<>>, InflateThrows)

FetchInit ==
    /\ fetchPc = "call"
    /\ fetchPath = ""
    /\ fetchData = NoBody
    /\ fetchText = <<>>
    /\ fetchOut = Pending

\* Line 84: fetch(url) is started.
FetchCall ==
    /\ fetchPc = "call"
    /\ fetchPc' = "awaitFetch"
    /\ UNCHANGED <<fetchPath, fetchData, fetchText, fetchOut>>
    /\ UNCHANGED fetchOthers

\* fetch rejects (no network): the catch of line 117.
FetchNetworkError ==
    /\ fetchPc = "awaitFetch"
    /\ fetchPc' = "done"
    /\ fetchPath' = "neterr"
    /\ fetchOut' = fetchAPI_Catch
    /\ UNCHANGED <<fetchData, fetchText>>
    /\ UNCHANGED fetchOthers

\* response.ok is false: line 92 throws into the catch of line 117.
FetchNotOk ==
    /\ fetchPc = "awaitFetch"
    /\ fetchPc' = "done"
    /\ fetchPath' = "notok"
    /\ fetchOut' = fetchAPI_Catch
    /\ UNCHANGED <<fetchData, fetchText>>
    /\ UNCHANGED fetchOthers

\* response.ok is true: line 95 awaits the body.
FetchOk ==
    /\ fetchPc = "awaitFetch"
    /\ fetchPc' = "awaitBody"
    /\ UNCHANGED <<fetchPath, fetchData, fetchText, fetchOut>>
    /\ UNCHANGED fetchOthers

\* response.arrayBuffer() rejects (the connection drops): the catch of line 117.
FetchBodyError ==
    /\ fetchPc = "awaitBody"
    /\ fetchPc' = "done"
    /\ fetchPath' = "bodyerr"
    /\ fetchOut' = fetchAPI_Catch
    /\ UNCHANGED <<fetchData, fetchText>>
    /\ UNCHANGED fetchOthers

\* The body arrives: lines 96-115.
FetchBody ==
    /\ fetchPc = "awaitBody"
    /\ \E data \in Bodies :
         /\ fetchData' = data
         /\ fetchText' = decompressGzip(data)
         /\ fetchOut' = Resolved(fetchAPI_Decode(data))
    /\ fetchPc' = "done"
    /\ fetchPath' = "body"
    /\ UNCHANGED fetchOthers

FetchNext ==
    \/ FetchCall \/ FetchNetworkError \/ FetchNotOk \/ FetchOk
    \/ FetchBodyError \/ FetchBody

FetchIdle ==
    /\ fetchPc = "off"
    /\ fetchPath = ""
    /\ fetchData = NoBody
    /\ fetchText = <<>>
    /\ fetchOut = Pending

----------------------------------------------------------------------------
(* JavaScript operators the mappers use *)

\* A TypeError thrown while a value is computed.
JsThrow == [t |-> "throw", v |-> <<>>]

DigitChar(d) == <<"0", "1", "2", "3", "4", "5", "6", "7", "8", "9">>[d + 1]

RECURSIVE NatToChars(_)
NatToChars(n) ==
    IF n < 10 THEN <<DigitChar(n)>>
    ELSE NatToChars(n \div 10) \o <<DigitChar(n % 10)>>

\* Number.prototype.toString of an integer.
IntToChars(n) ==
    IF n >= 0 THEN NatToChars(n)
    ELSE LET last == (10 - (n % 10)) % 10
             rest == -((n + last) \div 10)
         IN  <<"-">> \o (IF rest = 0 THEN <<>> ELSE NatToChars(rest)) \o <<DigitChar(last)>>

\* The value of the last member of an object named key, or undefined.
RECURSIVE Member(_, _)
Member(members, key) ==
    IF members = <<>> THEN JsUndefined
    ELSE IF members[Len(members)][1] = key THEN members[Len(members)][2]
    ELSE Member(SubSeq(members, 1, Len(members) - 1), key)

\* x[i] for an index i >= 0.
Index(x, i) ==
    IF x.t \in {"null", "undef", "throw"} THEN JsThrow
    ELSE IF x.t = "arr" THEN (IF i < Len(x.v) THEN x.v[i + 1] ELSE JsUndefined)
    ELSE IF x.t = "str" THEN (IF i < Len(x.v) THEN JsStr(<<x.v[i + 1]>>) ELSE JsUndefined)
    ELSE IF x.t = "obj" THEN Member(x.v, IntToChars(i))
    ELSE JsUndefined

\* x.name for an object x.
Prop(x, name) ==
    IF x.t \in {"null", "undef", "throw"} THEN JsThrow
    ELSE IF x.t = "obj" THEN Member(x.v, name)
    ELSE JsUndefined

Truthy(x) ==
    CASE x.t = "str" -> x.v # <<>>
      [] x.t = "num" -> x.v # 0
      [] x.t = "bool" -> x.v
      [] x.t \in {"arr", "obj"} -> TRUE
      [] OTHER -> FALSE

\* x || d
OrElse(x, d) == IF x.t = "throw" THEN JsThrow ELSE IF Truthy(x) THEN x ELSE d

ObjectObject ==
    <<"[", "o", "b", "j", "e", "c", "t", " ", "O", "b", "j", "e", "c", "t", "]">>

ToStringName == <<"t", "o", "S", "t", "r", "i", "n", "g">>

\* String(x) as Array.prototype.join applies it; <<"throw">> when it throws.
RECURSIVE StringOf(_)
StringOf(x) ==
    CASE x.t = "str" -> x.v
      [] x.t = "num" -> IntToChars(x.v)
      [] x.t = "bool" -> IF x.v THEN <<"t", "r", "u", "e">> ELSE <<"f", "a", "l", "s", "e">>
      [] x.t = "arr" ->
           LET parts == [k \in 1..Len(x.v) |->
                           IF x.v[k].t \in {"null", "undef"} THEN <<>> ELSE StringOf(x.v[k])]
           IN  IF \E k \in 1..Len(parts) : parts[k] = <<"throw">> THEN <<"throw">>
               ELSE Join(parts, <<",">>)
      [] x.t = "obj" ->
           IF Member(x.v, ToStringName).t # "undef" THEN <<"throw">> ELSE ObjectObject
      [] OTHER -> <<"throw">>

\* x?.toString()
ToStringOpt(x) ==
    IF x.t = "throw" THEN JsThrow
    ELSE IF x.t \in {"null", "undef"} THEN JsUndefined
    ELSE IF StringOf(x) = <<"throw">> THEN JsThrow
    ELSE JsStr(StringOf(x))

Str0 == JsStr(<<"0">>)
Str1 == JsStr(<<"1">>)
StrEmpty == JsStr(<<>>)

----------------------------------------------------------------------------
(* The entity mappers, src/unnamed/part_000:126-238 *)

Returned(entities) == [threw |-> FALSE, val |-> entities]
Threw == [threw |-> TRUE, val |-> <<>>]

\* Some field of the entity could not be computed.
FieldThrew(e) == \E f \in DOMAIN e : e[f].t = "throw"

\* rows.map(...) whose callback gave es: the entities, or the exception of the
\* first row that throws.
MapRows(es) ==
    IF \E k \in 1..Len(es) : FieldThrew(es[k]) THEN Threw ELSE Returned(es)

\* Lines 131-141.
StopOf(row, index) ==
    [ StopCode      |-> OrElse(Index(row, 1), StrEmpty),
      StopID        |-> OrElse(ToStringOpt(Index(row, 0)), StrEmpty),
      StopDescr     |-> OrElse(Index(row, 2), StrEmpty),
      StopDescrEng  |-> OrElse(OrElse(Index(row, 3), Index(row, 2)), StrEmpty),
      StopLat       |-> OrElse(Index(row, 8), Str0),
      StopLng       |-> OrElse(Index(row, 7), Str0),
      StopHeading   |-> Str0,
      StopStreet    |-> OrElse(Index(row, 4), JsNull),
      StopStreetEng |-> OrElse(Index(row, 5), JsNull) ]

getStops(rows) ==
    IF rows.t # "arr" THEN Returned(<<>>)
    ELSE MapRows([k \in 1..Len(rows.v) |-> StopOf(rows.v[k], k - 1)])

\* Lines 152-157.
LineOf(row, index) ==
    [ LineCode     |-> OrElse(ToStringOpt(Index(row, 0)), StrEmpty),
      LineID       |-> OrElse(Index(row, 1), StrEmpty),
      LineDescr    |-> OrElse(Index(row, 2), StrEmpty),
      LineDescrEng |-> OrElse(OrElse(Index(row, 3), Index(row, 2)), StrEmpty) ]

getLines(rows) ==
    IF rows.t # "arr" THEN Returned(<<>>)
    ELSE MapRows([k \in 1..Len(rows.v) |-> LineOf(rows.v[k], k - 1)])

\* Lines 171-178.
RouteOf(row, index) ==
    [ RouteCode     |-> OrElse(ToStringOpt(Index(row, 1)), StrEmpty),
      LineCode      |-> OrElse(ToStringOpt(Index(row, 0)), StrEmpty),
      RouteDescr    |-> OrElse(Index(row, 2), StrEmpty),
      RouteDescrEng |-> OrElse(OrElse(Index(row, 3), Index(row, 2)), StrEmpty),
      RouteType     |-> Str1,
      RouteDistance |-> StrEmpty ]

\* rows.filter(row => row[0]?.toString() === lineCode), line 169: the rows
\* kept, or that the test threw.
RECURSIVE FilterLine(_, _)
FilterLine(rows, lineCode) ==
    IF rows = <<>> THEN Returned(<<>>)
    ELSE LET key  == ToStringOpt(Index(Head(rows), 0))
             rest == FilterLine(Tail(rows), lineCode)
         IN  IF key.t = "throw" \/ rest.threw THEN Threw
             ELSE IF key.t = "str" /\ key.v = lineCode
                  THEN Returned(<<Head(rows)>> \o rest.val)
             ELSE rest

getRoutesForLine(rows, lineCode) ==
    IF rows.t # "arr" THEN Returned(<<>>)
    ELSE IF FilterLine(rows.v, lineCode).threw THEN Threw
    ELSE LET kept == FilterLine(rows.v, lineCode).val
         IN  MapRows([k \in 1..Len(kept) |-> RouteOf(kept[k], k - 1)])

\* Lines 189-193.
RoutePointOf(row, index) ==
    [ routed_x     |-> OrElse(Index(row, 0), Str0),
      routed_y     |-> OrElse(Index(row, 1), Str0),
      routed_order |-> JsStr(IntToChars(index)) ]

getRouteDetails(rows) ==
    IF rows.t # "arr" THEN Returned(<<>>)
    ELSE MapRows([k \in 1..Len(rows.v) |-> RoutePointOf(rows.v[k], k - 1)])

\* Lines 215-219 reading the row as [route_code, btime2, veh_code].
StopArrivalOf_Swapped(arr, index) ==
    IF arr.t = "obj"
    THEN [ btime2     |-> OrElse(ToStringOpt(Prop(arr, <<"b", "t", "i", "m", "e", "2">>)), StrEmpty),
           route_code |-> OrElse(ToStringOpt(Prop(arr,
                            <<"r", "o", "u", "t", "e", "_", "c", "o", "d", "e">>)), StrEmpty),
           veh_code   |-> OrElse(ToStringOpt(Prop(arr,
                            <<"v", "e", "h", "_", "c", "o", "d", "e">>)), StrEmpty) ]
    ELSE [ btime2     |-> OrElse(Index(arr, 1), StrEmpty),
           route_code |-> OrElse(Index(arr, 0), StrEmpty),
           veh_code   |-> OrElse(Index(arr, 2), StrEmpty) ]

\* Lines 205-220.
StopArrivalOf(arr, index) ==
    IF arr.t = "obj"
    THEN [ btime2     |-> OrElse(ToStringOpt(Prop(arr, <<"b", "t", "i", "m", "e", "2">>)), StrEmpty),
           route_code |-> OrElse(ToStringOpt(Prop(arr,
                            <<"r", "o", "u", "t", "e", "_", "c", "o", "d", "e">>)), StrEmpty),
           veh_code   |-> OrElse(ToStringOpt(Prop(arr,
                            <<"v", "e", "h", "_", "c", "o", "d", "e">>)), StrEmpty) ]
    ELSE [ btime2     |-> OrElse(Index(arr, 0), StrEmpty),
           route_code |-> OrElse(Index(arr, 1), StrEmpty),
           veh_code   |-> OrElse(Index(arr, 2), StrEmpty) ]

getStopArrivals(arrivals) ==
    IF arrivals.t # "arr" THEN Returned(<<>>)
    ELSE MapRows([k \in 1..Len(arrivals.v) |-> StopArrivalOf(arrivals.v[k], k - 1)])

\* Lines 231-237, for the routeCode of the call.
BusLocationOf(routeCode, row) ==
    [ VEH_NO     |-> OrElse(Index(row, 0), StrEmpty),
      CS_DATE    |-> OrElse(Index(row, 1), StrEmpty),
      CS_LAT     |-> OrElse(Index(row, 2), Str0),
      CS_LNG     |-> OrElse(Index(row, 3), Str0),
      ROUTE_CODE |-> JsStr(routeCode) ]

getBusLocations(rows, routeCode) ==
    IF rows.t # "arr" THEN Returned(<<>>)
    ELSE MapRows([k \in 1..Len(rows.v) |-> BusLocationOf(routeCode, rows.v[k])])

\* Lines 296-307: the arrivals of the text, JSON first, then the tuple format.
ArrivalsOf(text) ==
    IF LooksLikeJson(text) /\ JsonParse(text).ok THEN JsonParse(text).val
    ELSE RowsValue(parseTupleFormat(text))

\* Lines 314-315: the route code of an arrival, undefined when it has none.
RouteCodeOf(arr) ==
    LET named == Prop(arr, <<"r", "o", "u", "t", "e", "_", "c", "o", "d", "e">>)
    IN  IF named.t = "throw" THEN JsThrow
        ELSE IF Truthy(named) THEN named
        ELSE IF Truthy(Index(arr, 1)) THEN Index(arr, 1)
        ELSE JsUndefined

\* The equality of the values of a Set: strings and numbers by their value,
\* arrays and objects by their identity.
SameValueZero(a, b) == a.t = b.t /\ a.t \in {"str", "num", "bool"} /\ a.v = b.v

\* Set.prototype.add: the codes keep the order they were first added in.
AddCode(codes, code) ==
    IF code.t = "undef" \/ (\E k \in 1..Len(codes) : SameValueZero(codes[k], code)) THEN codes
    ELSE Append(codes, code)

\* Lines 312-316: the Set of the route codes of the arrivals.
RECURSIVE CollectRouteCodes(_)
CollectRouteCodes(arrivals) ==
    IF arrivals = <<>> THEN <<>>
    ELSE AddCode(CollectRouteCodes(SubSeq(arrivals, 1, Len(arrivals) - 1)),
                 RouteCodeOf(arrivals[Len(arrivals)]))

\* routeCode.slice(-2) || routeCode, line 327; a TypeError for a value that has
\* no slice method.
LineIdOf(routeCode) ==
    IF routeCode.t = "str"
    THEN (IF Len(routeCode.v) > 2
          THEN JsStr(SubSeq(routeCode.v, Len(routeCode.v) - 1, Len(routeCode.v)))
          ELSE routeCode)
    ELSE IF routeCode.t = "arr"
    THEN (IF Len(routeCode.v) > 2
          THEN JsArr(SubSeq(routeCode.v, Len(routeCode.v) - 1, Len(routeCode.v)))
          ELSE routeCode)
    ELSE JsThrow

\* `${label} ${routeCode}`
Labelled(label, routeCode) ==
    IF StringOf(routeCode) = <<"throw">> THEN JsThrow
    ELSE JsStr(label \o <<" ">> \o StringOf(routeCode))

\* Lines 321-331.
StopRouteOf(routeCode) ==
    [ RouteCode      |-> routeCode,
      RouteDescr     |-> Labelled(<<"R", "o", "u", "t", "e">>, routeCode),
      RouteDescrEng  |-> Labelled(<<"R", "o", "u", "t", "e">>, routeCode),
      RouteType      |-> Str1,
      LineCode       |-> routeCode,
      LineID         |-> LineIdOf(routeCode),
      LineDescr      |-> Labelled(<<"L", "i", "n", "e">>, routeCode),
      LineDescrEng   |-> Labelled(<<"L", "i", "n", "e">>, routeCode),
      MasterLineCode |-> routeCode ]

\* Lines 335-338: the catch of getRoutesForStop.
getRoutesForStop_Catch == Returned(<<>>)

\* Lines 309-334, for the arrivals that were parsed: an exception of the
\* forEach or of the loop is caught at line 335.
StopRoutesOf(arrivals) ==
    IF arrivals.t # "arr" THEN Returned(<<>>)
    ELSE IF \E k \in 1..Len(arrivals.v) : RouteCodeOf(arrivals.v[k]).t = "throw"
         THEN getRoutesForStop_Catch
    ELSE LET codes  == CollectRouteCodes(arrivals.v)
             routes == [k \in 1..Len(codes) |-> StopRouteOf(codes[k])]
         IN  IF \E k \in 1..Len(routes) : FieldThrew(routes[k]) THEN getRoutesForStop_Catch
             ELSE Returned(routes)

\* Lines 289-334, for the body of an OK response.
getRoutesForStop(data) ==
    LET text == decompressGzip(data)
    IN  IF text = <<>> \/ Trim(text) = <<>> THEN Returned(<<>>)
        ELSE StopRoutesOf(ArrivalsOf(text))

----------------------------------------------------------------------------
(* What the server answers to a mapper's request *)

MaxElems == 2
MaxRowLen == 9

Shape(kind, parts) == [kind |-> kind, parts |-> parts]

QuoteLit(body) == <<"\"">> \o body \o <<"\"">>

\* Elements of a JSON array: null, 7, 0, "r", [], ["7","r"], [0,"r"],
\* {"btime2":7}, {}, true.
ElementTexts ==
    { NullLit, <<"7">>, <<"0">>, QuoteLit(<<"r">>), <<"[", "]">>,
      <<"[">> \o QuoteLit(<<"7">>) \o <<",">> \o QuoteLit(<<"r">>) \o <<"]">>,
      <<"[", "0", ",">> \o QuoteLit(<<"r">>) \o <<"]">>,
      <<"{">> \o QuoteLit(<<"b", "t", "i", "m", "e", "2">>) \o <<":", "7", "}">>,
      <<"{", "}">>,
      <<"t", "r", "u", "e">> }

\* The JSON text of a value an arrival carries: "7", "r", "", 7, 0, null, and
\* the empty text for a value that is absent.
Absent == <<>>

CarriedTexts ==
    { QuoteLit(<<"7">>), QuoteLit(<<"r">>), QuoteLit(<<>>), <<"7">>, <<"0">>, NullLit, Absent }

\* The n fields "f0", "f1", ... of a tuple row, the one at index hole being None.
RowFields(n, hole) ==
    [k \in 1..n |-> IF k - 1 = hole THEN NoneLit ELSE QuoteLit(<<"f">> \o NatToChars(k - 1))]

\* {"route_code":"..."}
ArrivalText(code) ==
    <<"{">> \o QuoteLit(<<"r", "o", "u", "t", "e", "_", "c", "o", "d", "e">>) \o <<":">>
      \o QuoteLit(code) \o <<"}">>

\* Three arrivals of two routes:
\* [{"route_code":"1238"},{"route_code":"7"},{"route_code":"1238"}]
ArrivalsText ==
    <<"[">>
      \o Join(<<ArrivalText(<<"1", "2", "3", "8">>), ArrivalText(<<"7">>),
                ArrivalText(<<"1", "2", "3", "8">>)>>, <<",">>)
      \o <<"]">>

Shapes ==
    {Shape("json", es) : es \in UNION {[1..n -> ElementTexts] : n \in 0..MaxElems}}
      \cup {Shape("obj", vs) : vs \in [1..3 -> CarriedTexts]}
      \cup {Shape("row", vs) : vs \in [1..3 -> CarriedTexts] \ {[k \in 1..3 |-> Absent]}}
      \cup {Shape("tuple", RowFields(n, hole)) : n \in 1..MaxRowLen, hole \in 0..MaxRowLen}
      \cup {Shape("text", <<t>>) : t \in {<<"{", "}">>, <<>>, ExampleText, ArrivalsText}}

\* {"btime2":b,"route_code":r,"veh_code":v} without the members that are absent.
ArrivalObjectText(vs) ==
    LET member(name, k) == IF vs[k] = Absent THEN <<>> ELSE <<QuoteLit(name) \o <<":">> \o vs[k]>>
    IN  <<"{">>
          \o Join(member(<<"b", "t", "i", "m", "e", "2">>, 1)
                    \o member(<<"r", "o", "u", "t", "e", "_", "c", "o", "d", "e">>, 2)
                    \o member(<<"v", "e", "h", "_", "c", "o", "d", "e">>, 3), <<",">>)
          \o <<"}">>

\* The tuple token of a carried value: a quoted string or a number as it is,
\* None for null and for a value absent before a present one.
TupleToken(v) == IF v = Absent \/ v = NullLit THEN NoneLit ELSE v

\* (b, r, v) without the trailing values that are absent.
RECURSIVE DropAbsentTail(_)
DropAbsentTail(vs) ==
    IF vs # <<>> /\ vs[Len(vs)] = Absent THEN DropAbsentTail(SubSeq(vs, 1, Len(vs) - 1)) ELSE vs

ArrivalRowText(vs) ==
    LET kept == DropAbsentTail(vs)
    IN  <<"(">> \o Join([k \in 1..Len(kept) |-> TupleToken(kept[k])], <<",", " ">>) \o <<")">>

ShapeText(shape) ==
    CASE shape.kind = "json" -> <<"[">> \o Join(shape.parts, <<",">>) \o <<"]">>
      [] shape.kind = "obj" -> <<"[">> \o ArrivalObjectText(shape.parts) \o <<"]">>
      [] shape.kind = "row" -> ArrivalRowText(shape.parts)
      [] shape.kind = "tuple" -> <<"(">> \o Join(shape.parts, <<",", " ">>) \o <<")">>
      [] OTHER -> shape.parts[1]

NoShape == Shape("none", <<>>)
NoOutput == [threw |-> FALSE, val |-> <<>>]

LineCodes == {<<"7">>, <<"f", "0">>}
RouteCodes == {<<"r">>}

MapInit ==
    /\ mapPc = "call"
    /\ mapIn = NoShape
    /\ mapFetched = JsUndefined
    /\ mapFn = ""
    /\ mapOut = NoOutput

\* The mapper's fetchAPI call resolves with the decoded body.
MapFetched ==
    /\ mapPc = "call"
    /\ \E shape \in Shapes :
         /\ mapIn' = shape
         /\ mapFetched' = fetchAPI_Decode(Body(ShapeText(shape), InflateThrows))
    /\ mapPc' = "fetched"
    /\ UNCHANGED <<mapFn, mapOut>>
    /\ UNCHANGED mapOthers

\* The mapper's fetchAPI call resolves after a failed request.
MapFetchFailed ==
    /\ mapPc = "call"
    /\ mapFetched' = fetchAPI_Catch.val
    /\ mapPc' = "fetched"
    /\ UNCHANGED <<mapIn, mapFn, mapOut>>
    /\ UNCHANGED mapOthers

\* getStops, lines 126-142, after its await.
GetStops ==
    /\ mapPc = "fetched"
    /\ mapOut' = getStops(mapFetched)
    /\ mapPc' = "done"
    /\ mapFn' = "getStops"
    /\ UNCHANGED <<mapIn, mapFetched>>
    /\ UNCHANGED mapOthers

\* getLines, lines 147-158.
GetLines ==
    /\ mapPc = "fetched"
    /\ mapOut' = getLines(mapFetched)
    /\ mapPc' = "done"
    /\ mapFn' = "getLines"
    /\ UNCHANGED <<mapIn, mapFetched>>
    /\ UNCHANGED mapOthers

\* getRoutesForLine(lineCode), lines 163-179.
GetRoutesForLine ==
    /\ mapPc = "fetched"
    /\ \E lineCode \in LineCodes :
         mapOut' = getRoutesForLine(mapFetched, lineCode)
    /\ mapPc' = "done"
    /\ mapFn' = "getRoutesForLine"
    /\ UNCHANGED <<mapIn, mapFetched>>
    /\ UNCHANGED mapOthers

\* getRouteDetails, lines 184-194.
GetRouteDetails ==
    /\ mapPc = "fetched"
    /\ mapOut' = getRouteDetails(mapFetched)
    /\ mapPc' = "done"
    /\ mapFn' = "getRouteDetails"
    /\ UNCHANGED <<mapIn, mapFetched>>
    /\ UNCHANGED mapOthers

\* getStopArrivals, lines 200-221.
GetStopArrivals ==
    /\ mapPc = "fetched"
    /\ mapOut' = getStopArrivals(mapFetched)
    /\ mapPc' = "done"
    /\ mapFn' = "getStopArrivals"
    /\ UNCHANGED <<mapIn, mapFetched>>
    /\ UNCHANGED mapOthers

\* getBusLocations(routeCode), lines 226-238.
GetBusLocations ==
    /\ mapPc = "fetched"
    /\ \E routeCode \in RouteCodes :
         mapOut' = getBusLocations(mapFetched, routeCode)
    /\ mapPc' = "done"
    /\ mapFn' = "getBusLocations"
    /\ UNCHANGED <<mapIn, mapFetched>>
    /\ UNCHANGED mapOthers

\* getRoutesForStop(stopCode), lines 281-334: its own fetch gives an OK
\* response with a body.
GetRoutesForStop ==
    /\ mapPc = "call"
    /\ \E shape \in Shapes :
         /\ mapIn' = shape
         /\ mapFetched' = ArrivalsOf(ShapeText(shape))
         /\ mapOut' = getRoutesForStop(Body(ShapeText(shape), InflateThrows))
    /\ mapPc' = "done"
    /\ mapFn' = "getRoutesForStop"
    /\ UNCHANGED mapOthers

\* getRoutesForStop(stopCode) when the fetch or the read of the body rejects
\* (line 335) or the response is not OK (line 287).
GetRoutesForStopFailed ==
    /\ mapPc = "call"
    /\ mapOut' = getRoutesForStop_Catch
    /\ mapPc' = "done"
    /\ mapFn' = "getRoutesForStop"
    /\ UNCHANGED <<mapIn, mapFetched>>
    /\ UNCHANGED mapOthers

MapNext ==
    \/ MapFetched \/ MapFetchFailed
    \/ GetStops \/ GetLines \/ GetRoutesForLine
    \/ GetRouteDetails \/ GetStopArrivals \/ GetBusLocations
    \/ GetRoutesForStop \/ GetRoutesForStopFailed

MapIdle ==
    /\ mapPc = "off"
    /\ mapIn = NoShape
    /\ mapFetched = JsUndefined
    /\ mapFn = ""
    /\ mapOut = NoOutput

----------------------------------------------------------------------------
(* The entity mappers: claims C6, C7 *)

\* C6: for every value the decoder can return (tuple rows of any length, JSON
\* arrays of objects, arrays, scalars or null), the six mappers complete
\* without throwing and return entities in which no field is undefined.
C6_AsStated ==
    mapPc = "done" =>
        /\ ~mapOut.threw
        /\ \A k \in 1..Len(mapOut.val) :
             \A f \in DOMAIN mapOut.val[k] : mapOut.val[k][f].t # "undef"

\* The string a carried value stands for: a string itself, a number in
\* decimal, and "" for null and for an absent value.
CarriedString(v) ==
    IF v = Absent \/ v = NullLit THEN <<>>
    ELSE IF v[1] = "\"" THEN SubSeq(v, 2, Len(v) - 1)
    ELSE v

ExpectedArrival(vs) ==
    [ btime2     |-> JsStr(CarriedString(vs[1])),
      route_code |-> JsStr(CarriedString(vs[2])),
      veh_code   |-> JsStr(CarriedString(vs[3])) ]

----------------------------------------------------------------------------
(* fetchAPI: claims C1, C2, C4, C5 *)

EmptyArray == JsArr(<<>>)

\* The body has the gzip magic and pako.ungzip throws on it.
CorruptGzip(data) == HasGzipMagic(data) /\ ~data.inflated.ok

\* The text holds no "(" followed, after at least one character, by ")".
NoTupleGroup(text) ==
    ~ \E i, j \in 1..Len(text) :
        /\ i + 1 < j
        /\ text[i] = "("
        /\ text[j] = ")"
        /\ \A k \in i + 1..j - 1 : text[k] # ")"

NeitherJsonNorTuple(text) == ~JsonParse(text).ok /\ NoTupleGroup(text)

TransportFailed == fetchPath \in {"neterr", "notok", "bodyerr"}

C2_AsStated ==
    fetchPc = "done" => fetchOut.val.t = "arr"

ValidJsonObject(text) ==
    /\ Trim(text) # <<>>
    /\ Trim(text)[1] = "{"
    /\ JsonParse(text).ok

\* C2 amended: the value fetchAPI resolves to is an array for every response
\* body except one whose text is a valid JSON object; for that body it is the
\* parsed object.
C2_ArrayUnlessObject ==
    fetchPc = "done" =>
        IF fetchPath = "body" /\ ValidJsonObject(fetchText)
        THEN fetchOut.val.t = "obj"
        ELSE fetchOut.val.t = "arr"

\* The body {} resolved to the empty object.
C2_Witness ==
    /\ fetchPc = "done"
    /\ fetchText = <<"{", "}">>
    /\ fetchOut = Resolved(JsObj(<<>>))

WhitespaceOnly(text) == \A k \in 1..Len(text) : IsSpace(text[k])

\* C4: when the decompressed text is empty, whitespace-only, or literally
\* null, [] or (), fetchAPI resolves to the empty array.
C4_EmptyTexts ==
    ( /\ fetchPc = "done"
      /\ fetchPath = "body"
      /\ \/ WhitespaceOnly(fetchText)
         \/ fetchText \in {NullLit, <<"[", "]">>, <<"(", ")">>} )
        => fetchOut = Resolved(EmptyArray)

\* A gzip stream of the text null resolved to the empty array.
C4_Witness ==
    /\ fetchPc = "done"
    /\ HasGzipMagic(fetchData)
    /\ fetchText = NullLit
    /\ fetchOut = Resolved(EmptyArray)

OpensLikeJson(text) == Trim(text) # <<>> /\ Trim(text)[1] \in {"[", "{"}

\* C5: for text whose trimmed form starts with "{" or "[", fetchAPI returns the
\* parsed JSON value when the text is valid JSON, and otherwise exactly the
\* rows parseTupleFormat returns for that text.
C5_JsonThenTuples ==
    (fetchPc = "done" /\ fetchPath = "body" /\ OpensLikeJson(fetchText)) =>
        /\ fetchOut.settled = "resolved"
        /\ JsonParse(fetchText).ok => fetchOut.val = JsonParse(fetchText).val
        /\ ~JsonParse(fetchText).ok =>
             fetchOut.val = RowsValue(parseTupleFormat(fetchText))

\* {(1)} is not JSON and resolved to the row ["1"].
C5_Witness ==
    /\ fetchPc = "done"
    /\ fetchText = BracedTuple
    /\ fetchOut = Resolved(JsArr(<< JsArr(<< JsStr(<<"1">>) >>) >>))

----------------------------------------------------------------------------
(* getClosestStops, src/unnamed/part_000:243-275 *)

\* A JavaScript number, in hundredths, or NaN.
NaN == [nan |-> TRUE, val |-> 0]
Hundredths(n) == [nan |-> FALSE, val |-> n]

\* The first two decimals of the digits after the point, in hundredths.
Decimals2(ds) == DigitsValue(SubSeq(ds \o <<"0", "0">>, 1, 2))

\* parseFloat: white space is skipped, then the longest prefix of the form
\* [sign] digits [. digits] is the number; NaN when there is no such prefix.
\* The texts of this model hold no exponent and at most two decimals.
parseFloat(x) ==
    IF x.t = "num" THEN Hundredths(100 * x.v)
    ELSE IF x.t # "str" THEN NaN
    ELSE LET s    == x.v
             p0   == SkipWs(s, 1)
             neg  == HasAt(s, p0, <<"-">>)
             p1   == IF neg \/ HasAt(s, p0, <<"+">>) THEN p0 + 1 ELSE p0
             e1   == DigitsEnd(s, p1)
             e2   == IF HasAt(s, e1, <<".">>) THEN DigitsEnd(s, e1 + 1) ELSE e1
             int  == SubSeq(s, p1, e1 - 1)
             frac == SubSeq(s, e1 + 1, e2 - 1)
             abs  == 100 * DigitsValue(int) + Decimals2(frac)
         IN  IF int = <<>> /\ frac = <<>> THEN NaN
             ELSE Hundredths(IF neg THEN 0 - abs ELSE abs)

\* Number.prototype.toFixed(2) of a number >= 0 given in hundredths.
toFixed2(h) ==
    NatToChars(h \div 100) \o <<".", DigitChar((h \div 10) % 10), DigitChar(h % 10)>>

\* Lines 258-265 and the rounding of toFixed(2) at line 269: R * c with
\* R = 6371 for the point (lat, lng) and the stop (stopLat, stopLng), all in
\* whole degrees, rounded to two decimals and given in hundredths of a km.
\* The values are those of the IEEE double arithmetic of the code.
Haversine ==
    <<0, 0, 0, 0>> :> 0 @@ <<0, 0, 0, 1>> :> 11119 @@ <<0, 0, 0, 10>> :> 111195
      @@ <<0, 0, 1, 0>> :> 11119 @@ <<0, 0, 1, 1>> :> 15725 @@ <<0, 0, 1, 10>> :> 111744
      @@ <<0, 0, 10, 0>> :> 111195 @@ <<0, 0, 10, 1>> :> 111744 @@ <<0, 0, 10, 10>> :> 156852
      @@ <<1, 1, 0, 0>> :> 15725 @@ <<1, 1, 0, 1>> :> 11119 @@ <<1, 1, 0, 10>> :> 100686
      @@ <<1, 1, 1, 0>> :> 11118 @@ <<1, 1, 1, 1>> :> 0 @@ <<1, 1, 1, 10>> :> 100060
      @@ <<1, 1, 10, 0>> :> 100684 @@ <<1, 1, 10, 1>> :> 100075 @@ <<1, 1, 10, 10>> :> 141128

\* The distance of the stops whose coordinates do not parse, line 255.
Sentinel == <<"9", "9", "9">>

\* A filter that also drops the stops whose coordinates do not parse.
HasCoordinates_Numeric(stop) ==
    /\ Truthy(stop.StopLat)
    /\ Truthy(stop.StopLng)
    /\ stop.StopLat # Str0
    /\ stop.StopLng # Str0
    /\ ~parseFloat(stop.StopLat).nan
    /\ ~parseFloat(stop.StopLng).nan

\* The test of the filter, line 249.
HasCoordinates(stop) ==
    /\ Truthy(stop.StopLat)
    /\ Truthy(stop.StopLng)
    /\ stop.StopLat # Str0
    /\ stop.StopLng # Str0

\* The callback of the map, lines 250-271: the stop with its distance.
WithDistance(stop, lat, lng) ==
    LET stopLat  == parseFloat(stop.StopLat)
        stopLng  == parseFloat(stop.StopLng)
        distance ==
            IF stopLat.nan \/ stopLng.nan THEN Sentinel
            ELSE toFixed2(Haversine[<<lat, lng, stopLat.val \div 100, stopLng.val \div 100>>])
    IN  [f \in DOMAIN stop \cup {"distance"} |->
           IF f = "distance" THEN JsStr(distance) ELSE stop[f]]

\* The comparator of the sort, line 273.
CompareDistance(a, b) == parseFloat(a.distance).val - parseFloat(b.distance).val

\* e put behind the last element of the sorted list that is not after it.
RECURSIVE InsertByDistance(_, _)
InsertByDistance(sorted, e) ==
    IF sorted = <<>> THEN <<e>>
    ELSE IF CompareDistance(sorted[Len(sorted)], e) <= 0 THEN Append(sorted, e)
    ELSE Append(InsertByDistance(SubSeq(sorted, 1, Len(sorted) - 1), e), sorted[Len(sorted)])

\* The list as it is given.
SortByDistance_Unsorted(es) == es

\* Array.prototype.sort with the comparator of line 273; the sort is stable.
RECURSIVE SortByDistance(_)
SortByDistance(es) ==
    IF es = <<>> THEN <<>>
    ELSE InsertByDistance(SortByDistance(SubSeq(es, 1, Len(es) - 1)), es[Len(es)])

\* The slice of line 274 keeps this many stops.
ClosestLimit == 30

\* Lines 246-274, for what getStops gave.
getClosestStops(lat, lng, allStops) ==
    IF allStops.threw THEN Threw
    ELSE IF allStops.val = <<>> THEN Returned(<<>>)
    ELSE LET kept   == SelectSeq(allStops.val, HasCoordinates)
             sorted == SortByDistance([k \in 1..Len(kept) |-> WithDistance(kept[k], lat, lng)])
         IN  Returned(SubSeq(sorted, 1, IF Len(sorted) < ClosestLimit THEN Len(sorted)
                                            ELSE ClosestLimit))

----------------------------------------------------------------------------
(* The stops the server lists and the calls of getClosestStops *)

MaxStops == 2
MaxExtra == 1

Coordinates(lat, lng) == [lat |-> lat, lng |-> lng]

\* A row that ends before its coordinates.
NoCoordinates == Coordinates(<<"?">>, <<"?">>)

\* The latitude and longitude texts of a stop row: the point (0, 0) written
\* "0.0" and written "0", a latitude and a longitude that are no number, the
\* points (1, 1) and (10, 10), and no coordinates at all.
CoordinateTexts ==
    { Coordinates(<<"0", ".", "0">>, <<"0", ".", "0">>),
      Coordinates(<<"0">>, <<"0">>),
      Coordinates(<<"a", "b", "c">>, <<"1">>),
      Coordinates(<<"1">>, <<"x">>),
      Coordinates(<<"1">>, <<"1">>),
      Coordinates(<<"1", "0">>, <<"1", "0">>),
      NoCoordinates }

\* The tuple row of the k-th stop of the list: id, code, description, four
\* fields that are None, longitude, latitude (lines 131-137).
StopRow(k, c) ==
    LET head == <<NatToChars(k), <<"s">> \o NatToChars(k), <<"d">>>>
    IN  IF c = NoCoordinates THEN head
        ELSE head \o <<<<>>, <<>>, <<>>, <<>>, c.lng, c.lat>>

StopRows(cs) == [k \in 1..Len(cs) |-> StopRow(k, cs[k])]

\* The list of n stops that repeats the coordinates of cycle.
Repeat(cycle, n) ==
    IF cycle = <<>> THEN <<>> ELSE [k \in 1..n |-> cycle[((k - 1) % Len(cycle)) + 1]]

\* Short lists of every make, lists as long as the limit and longer ones.
StopLists ==
    LET cycles == UNION {[1..n -> CoordinateTexts] : n \in 0..MaxStops}
    IN  {Repeat(c, n) : c \in cycles,
                        n \in 0..MaxStops \cup {ClosestLimit, ClosestLimit + MaxExtra}}

ReferencePoints == {<<0, 0>>, <<1, 1>>}

StopsInit ==
    /\ stopsPc = "call"
    /\ stopsRef = <<0, 0>>
    /\ stopsIn = <<>>
    /\ stopsOut = NoOutput

\* getClosestStops(lat, lng) up to its await, lines 243-244.
GetClosestStopsCall ==
    /\ stopsPc = "call"
    /\ \E ref \in ReferencePoints : stopsRef' = ref
    /\ stopsPc' = "await"
    /\ UNCHANGED <<stopsIn, stopsOut>>
    /\ UNCHANGED stopsOthers

\* getStops resolves and getClosestStops runs to its end, lines 244-274.
GetClosestStopsResume ==
    /\ stopsPc = "await"
    /\ \E cs \in StopLists :
         /\ stopsIn' = cs
         /\ stopsOut' = getClosestStops(stopsRef[1], stopsRef[2],
                                        getStops(RowsValue(StopRows(cs))))
    /\ stopsPc' = "done"
    /\ UNCHANGED stopsRef
    /\ UNCHANGED stopsOthers

StopsNext == GetClosestStopsCall \/ GetClosestStopsResume

StopsIdle ==
    /\ stopsPc = "off"
    /\ stopsRef = <<0, 0>>
    /\ stopsIn = <<>>
    /\ stopsOut = NoOutput

----------------------------------------------------------------------------
(* getClosestStops: claims C8, C9 *)

StopIdOf(k) == JsStr(NatToChars(k))

\* The ids of the stops returned, in order.
ReturnedIds == [k \in 1..Len(stopsOut.val) |-> stopsOut.val[k].StopID]

IsReturned(k) == \E j \in 1..Len(stopsOut.val) : ReturnedIds[j] = StopIdOf(k)

ZeroText == <<"0">>

\* The row gives both coordinates and they are the numbers 0 and 0.
LocatedAtZero(c) ==
    /\ c # NoCoordinates
    /\ parseFloat(JsStr(c.lat)) = Hundredths(0)
    /\ parseFloat(JsStr(c.lng)) = Hundredths(0)

\* The row gives both coordinates and the latitude is no number.
NonNumericLatitude(c) == c # NoCoordinates /\ parseFloat(JsStr(c.lat)).nan

\* A coordinate is missing, empty or the text "0".
ZeroOrMissing(c) ==
    \/ c = NoCoordinates
    \/ c.lat \in {<<>>, ZeroText}
    \/ c.lng \in {<<>>, ZeroText}

DistanceText(chars) == JsStr(chars)

\* C8 as stated: with the reference point (0, 0), a stop located at (0, 0) and
\* a stop whose latitude is non-numeric, the list returned excludes the
\* non-numeric stop and has the (0, 0) stop first with distance "0.00".
C8_AsStated ==
    ( /\ stopsPc = "done"
      /\ stopsRef = <<0, 0>>
      /\ \E k \in 1..Len(stopsIn) : LocatedAtZero(stopsIn[k])
      /\ \E k \in 1..Len(stopsIn) : NonNumericLatitude(stopsIn[k]) )
    => /\ \A k \in 1..Len(stopsIn) : NonNumericLatitude(stopsIn[k]) => ~IsReturned(k)
       /\ stopsOut.val # <<>>
       /\ \E k \in 1..Len(stopsIn) :
            LocatedAtZero(stopsIn[k]) /\ ReturnedIds[1] = StopIdOf(k)
       /\ stopsOut.val[1].distance = DistanceText(<<"0", ".", "0", "0">>)

\* C8: with the reference point (0, 0), a stop located at (0, 0) whose
\* coordinates are not written "0" comes first with distance "0.00"; a stop
\* whose latitude is non-numeric and whose longitude is neither missing nor
\* "0" is not excluded: it is listed with distance "999", behind the (0, 0)
\* stops, whenever no more than 30 stops pass the filter; a stop with a
\* missing coordinate or a coordinate written "0" is never listed.
C8_ZeroFirstSentinelKept ==
    (stopsPc = "done" /\ stopsRef = <<0, 0>>) =>
        LET out     == stopsOut.val
            passing == {k \in 1..Len(stopsIn) : ~ZeroOrMissing(stopsIn[k])}
            zeros   == {k \in passing : LocatedAtZero(stopsIn[k])}
        IN  /\ ~stopsOut.threw
            /\ zeros # {} =>
                 /\ out # <<>>
                 /\ \E k \in zeros : ReturnedIds[1] = StopIdOf(k)
                 /\ out[1].distance = DistanceText(<<"0", ".", "0", "0">>)
            /\ \A k \in passing : NonNumericLatitude(stopsIn[k]) =>
                 /\ Cardinality(passing) <= ClosestLimit => IsReturned(k)
                 /\ \A j \in 1..Len(out) : ReturnedIds[j] = StopIdOf(k) =>
                      /\ out[j].distance = DistanceText(Sentinel)
                      /\ \A z \in zeros : \E i \in 1..(j - 1) : ReturnedIds[i] = StopIdOf(z)
            /\ \A k \in 1..Len(stopsIn) : ZeroOrMissing(stopsIn[k]) => ~IsReturned(k)

\* The stops ("abc", "1") and ("0.0", "0.0") came back as the second with
\* "0.00" and then the first with "999".
C8_Witness ==
    /\ stopsPc = "done"
    /\ stopsRef = <<0, 0>>
    /\ Len(stopsIn) = 2
    /\ NonNumericLatitude(stopsIn[1])
    /\ LocatedAtZero(stopsIn[2])
    /\ ReturnedIds = <<StopIdOf(2), StopIdOf(1)>>
    /\ stopsOut.val[1].distance = DistanceText(<<"0", ".", "0", "0">>)
    /\ stopsOut.val[2].distance = DistanceText(Sentinel)

\* The stops that pass the filter, each with the distance the code gives it.
Candidates ==
    LET all == getStops(RowsValue(StopRows(stopsIn))).val
    IN  {WithDistance(all[k], stopsRef[1], stopsRef[2]) :
           k \in {i \in 1..Len(all) : HasCoordinates(all[i])}}

DistanceOf(e) == parseFloat(e.distance).val

----------------------------------------------------------------------------
(* Numbers and dates of the ticket decoder, src/app/(tabs)/ticket.tsx *)

\* A JavaScript number that may need more than 31 bits: 86400 * q + r with
\* 0 <= r < 86400. For a time in seconds q is the day and r the second of it.
Wide(q, r) == [q |-> q, r |-> r]

WideOf(n) == Wide(n \div 86400, n % 86400)

WideAdd(a, b) == Wide(a.q + b.q + (a.r + b.r) \div 86400, (a.r + b.r) % 86400)

WideSub(a, b) == Wide(a.q - b.q + (a.r - b.r) \div 86400, (a.r - b.r) % 86400)

WideLess(a, b) == a.q < b.q \/ (a.q = b.q /\ a.r < b.r)

Zero == Wide(0, 0)

\* 2^32 = 86400 * 49710 + 23296
TwoTo32 == Wide(49710, 23296)

\* (b[0] & 0xff) | ((b[1] & 0xff) << 8) | ((b[2] & 0xff) << 16) |
\* ((b[3] & 0xff) << 24) for bytes 0..255: a signed 32-bit integer, negative
\* when the top bit of b[3] is set. The value is taken in units of 128 first
\* (86400 = 675 * 128).
Int32LE(b) ==
    LET units    == (b[1] \div 128) + 2 * b[2] + 512 * b[3] + 131072 * b[4]
        unsigned == Wide(units \div 675, (units % 675) * 128 + (b[1] % 128))
    IN  IF b[4] >= 128 THEN WideSub(unsigned, TwoTo32) ELSE unsigned

\* x >>> 0 for a signed 32-bit integer x.
ToUint32(x) == IF x.q < 0 THEN WideAdd(x, TwoTo32) ELSE x

\* n.toString().padStart(2, "0")
PadStart2(n) == IF n < 10 THEN <<"0">> \o NatToChars(n) ELSE NatToChars(n)

\* The year, month (1..12) and day of the month of a day counted from
\* 1970-01-01, in the Gregorian calendar of Date.
CivilFromDays(days) ==
    LET z   == days + 719468
        era == z \div 146097
        doe == z - era * 146097
        yoe == (doe - doe \div 1460 + doe \div 36524 - doe \div 146096) \div 365
        doy == doe - (365 * yoe + yoe \div 4 - yoe \div 100)
        mp  == (5 * doy + 2) \div 153
        m   == IF mp < 10 THEN mp + 3 ELSE mp - 9
    IN  [ year  |-> yoe + era * 400 + (IF m <= 2 THEN 1 ELSE 0),
          month |-> m,
          day   |-> doy - (153 * mp + 2) \div 5 + 1 ]

\* The day, counted from 1970-01-01, of a date of the Gregorian calendar.
DaysFromCivil(year, month, day) ==
    LET y   == IF month <= 2 THEN year - 1 ELSE year
        era == y \div 400
        yoe == y - era * 400
        mp  == IF month > 2 THEN month - 3 ELSE month + 9
        doy == (153 * mp + 2) \div 5 + day - 1
        doe == yoe * 365 + yoe \div 4 - yoe \div 100 + doy
    IN  era * 146097 + doe - 719468

\* The local time of the device is offset seconds ahead of UTC.
LocalTime(unix, offset) == WideAdd(unix, WideOf(offset))

\* formatTimestamp, lines 508-517: "DD/MM/YYYY HH:MM:SS" in local time.
formatTimestamp(unixTimestamp, offset) ==
    LET local == LocalTime(unixTimestamp, offset)
        date  == CivilFromDays(local.q)
    IN  PadStart2(date.day) \o <<"/">> \o PadStart2(date.month) \o <<"/">>
          \o NatToChars(date.year) \o <<" ">>
          \o PadStart2(local.r \div 3600) \o <<":">>
          \o PadStart2((local.r % 3600) \div 60) \o <<":">>
          \o PadStart2(local.r % 60)

\* Lines 403-411: new Date(year, month + 1, 0, 23, 59, 59) for the local year
\* and month of refDate, as Unix seconds.
EndOfMonthUnix(refDate, offset) ==
    LET date  == CivilFromDays(LocalTime(refDate, offset).q)
        first == IF date.month = 12 THEN DaysFromCivil(date.year + 1, 1, 1)
                 ELSE DaysFromCivil(date.year, date.month + 1, 1)
    IN  WideSub(Wide(first - 1, 86399), WideOf(offset))

----------------------------------------------------------------------------
(* parseAthenaTicketData, src/app/(tabs)/ticket.tsx:126-490 *)

Adult == <<"A", "d", "u", "l", "t">>
Student == <<"S", "t", "u", "d", "e", "n", "t">>
Senior == <<"S", "e", "n", "i", "o", "r">>
Child == <<"C", "h", "i", "l", "d">>
Disabled == <<"D", "i", "s", "a", "b", "l", "e", "d">>
Military == <<"M", "i", "l", "i", "t", "a", "r", "y">>
Unemployed == <<"U", "n", "e", "m", "p", "l", "o", "y", "e", "d">>
UniversityStudent == <<"U", "n", "i", "v", "e", "r", "s", "i", "t", "y", " ", "s", "t", "u", "d", "e", "n", "t">>
Regular == <<"R", "e", "g", "u", "l", "a", "r">>
Unknown == <<"U", "n", "k", "n", "o", "w", "n">>
Monthly == <<"M", "o", "n", "t", "h", "l", "y">>
Unlimited == <<"u", "n", "l", "i", "m", "i", "t", "e", "d">>
Encrypted == <<"e", "n", "c", "r", "y", "p", "t", "e", "d">>
CardPrefix == <<"3", "0", "0", "1", " ", "0", "1", "0", "0", " ">>
TripsSuffix == <<" ", "t", "r", "i", "p", "s">>

\* Lines 127-138.
USER_CATEGORIES ==
    (0 :> Adult) @@ (1 :> Adult) @@ (16 :> Student) @@ (32 :> Senior) @@ (48 :> Adult)
      @@ (64 :> Child) @@ (80 :> Disabled) @@ (96 :> Military) @@ (112 :> Unemployed)
      @@ (128 :> UniversityStudent)

\* USER_CATEGORIES[byte]
CategoryOf(byte) ==
    IF byte \in DOMAIN USER_CATEGORIES THEN JsStr(USER_CATEGORIES[byte]) ELSE JsUndefined

\* A number of the ticket, trips or seconds, as a JavaScript value.
Count(wide) == [t |-> "num", v |-> wide]

\* A ProductInfo object {name, trips}.
Product(name, trips) == [t |-> "obj", v |-> [name |-> name, trips |-> trips]]

\* The version object of parseDESFireVersion.
Version(cardType, manufacturer, capacity, productionDate) ==
    [t |-> "obj", v |-> [ cardType |-> cardType, manufacturer |-> manufacturer,
                          capacity |-> capacity, productionDate |-> productionDate ]]

\* fileData[id] when the map has no such file, and when it has.
NoFile == [present |-> FALSE, bytes |-> <<>>]
File(bytes) == [present |-> TRUE, bytes |-> bytes]

\* A file map {id: bytes}, and no file map at all (undefined).
Files(files) == [given |-> TRUE, files |-> files]
NoFiles == [given |-> FALSE, files |-> <<>>]

\* fileData[id]
FileOf(fileData, id) ==
    IF id \in DOMAIN fileData.files THEN File(fileData.files[id]) ELSE NoFile

\* file && file.length >= n
HasBytes(file, n) == file.present /\ Len(file.bytes) >= n

\* bytes[i], counted from 0.
At(bytes, i) == bytes[i + 1]

\* bytes.slice(from, to)
Slice(bytes, from, to) == SubSeq(bytes, from + 1, IF to < Len(bytes) THEN to ELSE Len(bytes))

HexDigit(n) ==
    <<"0", "1", "2", "3", "4", "5", "6", "7", "8", "9", "a", "b", "c", "d", "e", "f">>[n + 1]

\* b.toString(16).padStart(2, "0") for a byte b.
Hex2(b) == <<HexDigit(b \div 16), HexDigit(b % 16)>>

\* String.prototype.toUpperCase on digits, spaces and the letters a..f.
ToUpperCase(s) ==
    [k \in 1..Len(s) |->
       CASE s[k] = "a" -> "A" [] s[k] = "b" -> "B" [] s[k] = "c" -> "C"
         [] s[k] = "d" -> "D" [] s[k] = "e" -> "E" [] s[k] = "f" -> "F"
         [] OTHER -> s[k]]

\* replace(/(.{4})/g, "$1 "): a space behind every full run of 4 characters,
\* the runs being counted from the start of the string.
RECURSIVE SpaceEvery4(_)
SpaceEvery4(s) ==
    IF Len(s) < 4 THEN s
    ELSE SubSeq(s, 1, 4) \o <<" ">> \o SpaceEvery4(Drop(s, 5))

RECURSIVE HexOf(_)
HexOf(bytes) == IF bytes = <<>> THEN <<>> ELSE Hex2(Head(bytes)) \o HexOf(Tail(bytes))

\* Lines 202-211.
CardIdOf(file2) ==
    Trim(SpaceEvery4(ToUpperCase(CardPrefix \o HexOf(Slice(file2, 12, 17)))))

\* Lines 196-220.
ParseFile2(info, file2) ==
    IF ~HasBytes(file2, 20) THEN info
    ELSE [info EXCEPT
            !.cardId = CardIdOf(file2.bytes),
            !.userCategory = OrElse(CategoryOf(At(file2.bytes, 9)), JsStr(Regular)).v]

\* The char codes of "PKP".
PKP == <<80, 75, 80>>

\* The category of file 4 stands as it is read; "Adult" is not taken for a
\* student.
ParseFile4_NoStudentGuess(info, file4) ==
    IF ~HasBytes(file4, 10) THEN info
    ELSE LET typeCode     == <<At(file4.bytes, 4), At(file4.bytes, 5), At(file4.bytes, 6)>>
             persCategory == At(file4.bytes, 9)
             persUserCat  == CategoryOf(persCategory)
         IN  IF (typeCode = PKP \/ At(file4.bytes, 3) = 55)
                  /\ persCategory # 0 /\ Truthy(persUserCat)
             THEN [info EXCEPT !.userCategory = persUserCat.v]
             ELSE info

\* Lines 226-252.
ParseFile4(info, file4) ==
    IF ~HasBytes(file4, 10) THEN info
    ELSE LET typeCode     == <<At(file4.bytes, 4), At(file4.bytes, 5), At(file4.bytes, 6)>>
             persCategory == At(file4.bytes, 9)
             persUserCat  == CategoryOf(persCategory)
             overridden   == IF persCategory # 0 /\ Truthy(persUserCat) THEN persUserCat.v
                             ELSE info.userCategory
         IN  IF typeCode = PKP \/ At(file4.bytes, 3) = 55
             THEN [info EXCEPT !.userCategory =
                      IF overridden = Adult /\ typeCode = PKP THEN UniversityStudent
                      ELSE overridden]
             ELSE info

\* File 12 is read at any length, the bytes it lacks taken as 0.
ParseFile12_ShortToo(info, file12) ==
    IF ~file12.present THEN info
    ELSE [info EXCEPT !.tripsRemaining =
             Count(ToUint32(Int32LE(file12.bytes \o <<0, 0, 0, 0>>)))]

\* Lines 255-274.
ParseFile12(info, file12) ==
    IF ~HasBytes(file12, 4) THEN info
    ELSE [info EXCEPT !.tripsRemaining = Count(ToUint32(Int32LE(file12.bytes)))]

\* `${n} trips`
TripsName(n) == NatToChars(n) \o TripsSuffix

\* A record is a period pass by its type byte alone.
IsPeriodRecord_TypeOnly(file16, base) == At(file16, base + 1) = 49

\* Lines 293-295 and 317-319: the 32-byte record at offset base is a period
\* pass.
IsPeriodRecord(file16, base) ==
    \/ At(file16, base + 16) = 0 /\ At(file16, base) # 255
    \/ At(file16, base + 1) = 49

\* Lines 295-311 and 319-331: the product of the record at offset base, or
\* before when the record holds none.
ProductAt(file16, base, before) ==
    IF IsPeriodRecord(file16, base) THEN Product(Monthly, 0)
    ELSE IF At(file16, base + 16) > 0
         THEN Product(TripsName(At(file16, base + 16)), At(file16, base + 16))
    ELSE before

\* Lines 278-346.
ParseProducts(info, file16) ==
    IF ~HasBytes(file16, 32) THEN info
    ELSE LET activeProduct  == ProductAt(file16.bytes, 0, info.activeProduct)
             expiredProduct == IF Len(file16.bytes) >= 64
                               THEN ProductAt(file16.bytes, 32, info.expiredProduct)
                               ELSE info.expiredProduct
             trips          == IF IsPeriodRecord(file16.bytes, 0) THEN JsStr(Unlimited)
                               ELSE info.tripsRemaining
             fallback       == /\ trips.t = "num"
                               /\ trips.v = Zero
                               /\ activeProduct.t # "null"
                               /\ activeProduct.v.trips > 0
         IN  [info EXCEPT
                !.activeProduct = activeProduct,
                !.expiredProduct = expiredProduct,
                !.tripsRemaining = IF fallback THEN Count(WideOf(activeProduct.v.trips))
                                   ELSE trips]

\* 852076800, 1997-01-01 00:00:00 UTC (line 364), day 9862.
athenaEpoch == Wide(9862, 0)

\* 1420070400, 2015-01-01 00:00:00 UTC, day 16436.
Unix2015 == Wide(16436, 0)

\* 2208988800, 2040-01-01 00:00:00 UTC, day 25567.
Unix2040 == Wide(25567, 0)

\* The window is closed at its start: t >= 1420070400 && t < 2208988800
InWindow_ClosedStart(t) == ~WideLess(t, Unix2015) /\ WideLess(t, Unix2040)

\* t > 1420070400 && t < 2208988800
InWindow(t) == WideLess(Unix2015, t) /\ WideLess(t, Unix2040)

\* Lines 381-391: the load date of the raw load timestamp, or before.
LoadDateOf(loadTimestamp, offset, before) ==
    IF InWindow(loadTimestamp) THEN JsStr(formatTimestamp(loadTimestamp, offset))
    ELSE IF WideLess(Zero, loadTimestamp) /\ InWindow(WideAdd(athenaEpoch, loadTimestamp))
         THEN JsStr(formatTimestamp(WideAdd(athenaEpoch, loadTimestamp), offset))
    ELSE before

\* The ticket counts as active at the very instant of its expiry.
ExpiringAt_NotStrict(info, expiry, now, offset) ==
    [info EXCEPT
       !.expiryDate = JsStr(formatTimestamp(expiry, offset)),
       !.isActive = IF ~WideLess(expiry, now) THEN TRUE ELSE @,
       !.remainingTimeSeconds = IF ~WideLess(expiry, now) THEN WideSub(expiry, now) ELSE @]

\* Lines 413-422, 438-447 and 452-463: the expiry is shown, and the ticket is
\* active for the time that is left when the expiry is after now.
ExpiringAt(info, expiry, now, offset) ==
    [info EXCEPT
       !.expiryDate = JsStr(formatTimestamp(expiry, offset)),
       !.isActive = IF WideLess(now, expiry) THEN TRUE ELSE @,
       !.remainingTimeSeconds = IF WideLess(now, expiry) THEN WideSub(expiry, now) ELSE @]

\* Lines 394-422: a period pass expires at the end of the month of refDate.
PeriodExpiry(info, loadTimestamp, now, offset) ==
    LET refDate == IF WideLess(Unix2015, loadTimestamp) THEN loadTimestamp ELSE now
    IN  ExpiringAt(info, EndOfMonthUnix(refDate, offset), now, offset)

\* Lines 426-465: the expiry of counted trips is read from bytes 8-11.
CountedExpiry(info, expiryTimestamp, now, offset) ==
    IF InWindow(expiryTimestamp) THEN ExpiringAt(info, expiryTimestamp, now, offset)
    ELSE IF WideLess(Zero, expiryTimestamp) /\ InWindow(WideAdd(athenaEpoch, expiryTimestamp))
         THEN ExpiringAt(info, WideAdd(athenaEpoch, expiryTimestamp), now, offset)
    ELSE info

\* A card without a load date is shown as loaded now.
ParseTimestamps_LoadedNow(info, file16, now, offset) ==
    IF ~HasBytes(file16, 12) THEN info
    ELSE LET isPeriodPass  == At(file16.bytes, 1) = 49
             loadTimestamp == ToUint32(Int32LE(Slice(file16.bytes, 4, 8)))
             loaded        == [info EXCEPT !.loadDate =
                                  LoadDateOf(loadTimestamp, offset,
                                             JsStr(formatTimestamp(now, offset)))]
         IN  IF isPeriodPass THEN PeriodExpiry(loaded, loadTimestamp, now, offset)
             ELSE CountedExpiry(loaded, ToUint32(Int32LE(Slice(file16.bytes, 8, 12))),
                                now, offset)

\* Lines 363-467, at the time now on a device whose local time is offset
\* seconds ahead of UTC.
ParseTimestamps(info, file16, now, offset) ==
    IF ~HasBytes(file16, 12) THEN info
    ELSE LET isPeriodPass  == At(file16.bytes, 1) = 49
             loadTimestamp == ToUint32(Int32LE(Slice(file16.bytes, 4, 8)))
             loaded        == [info EXCEPT !.loadDate = LoadDateOf(loadTimestamp, offset, @)]
         IN  IF isPeriodPass THEN PeriodExpiry(loaded, loadTimestamp, now, offset)
             ELSE CountedExpiry(loaded, ToUint32(Int32LE(Slice(file16.bytes, 8, 12))),
                                now, offset)

\* The files are decoded whatever the encryption flag says.
ParsesFiles_WhateverTheFlag(fileData, isEncrypted) == fileData.given

\* fileData && !isEncrypted, line 194.
ParsesFiles(fileData, isEncrypted) == fileData.given /\ ~Truthy(isEncrypted)

\* Lines 181-192.
Defaults(uid, isEncrypted) ==
    [ cardId               |-> uid,
      tripsRemaining       |-> IF Truthy(isEncrypted) THEN JsStr(Encrypted) ELSE Count(Zero),
      userCategory         |-> Unknown,
      activeProduct        |-> JsNull,
      expiredProduct       |-> JsNull,
      isActive             |-> FALSE,
      remainingTimeSeconds |-> Zero,
      expiryDate           |-> JsNull,
      loadDate             |-> JsNull ]

\* Lines 174-179.
UnknownVersion == Version(Unknown, Unknown, Unknown, <<>>)

\* Lines 141-490. The bytes of the first argument are only logged.
parseAthenaTicketData(tagId, desfireInfo, applicationId, isEncrypted, fileData, now, offset) ==
    LET versionInfo == OrElse(desfireInfo, UnknownVersion).v
        uid         == OrElse(tagId, StrEmpty).v
        start       == Defaults(uid, isEncrypted)
        file16      == FileOf(fileData, 16)
        info        ==
            IF ParsesFiles(fileData, isEncrypted)
            THEN ParseTimestamps(
                     ParseProducts(
                         ParseFile12(
                             ParseFile4(ParseFile2(start, FileOf(fileData, 2)),
                                        FileOf(fileData, 4)),
                             FileOf(fileData, 12)),
                         file16),
                     file16, now, offset)
            ELSE start
    IN  [ cardId               |-> info.cardId,
          uid                  |-> uid,
          cardType             |-> versionInfo.cardType,
          manufacturer         |-> versionInfo.manufacturer,
          capacity             |-> versionInfo.capacity,
          productionDate       |-> versionInfo.productionDate,
          tripsRemaining       |-> info.tripsRemaining,
          activeProduct        |-> info.activeProduct,
          expiredProduct       |-> info.expiredProduct,
          userCategory         |-> info.userCategory,
          isActive             |-> info.isActive,
          remainingTimeSeconds |-> info.remainingTimeSeconds,
          expiryDate           |-> info.expiryDate,
          loadDate             |-> info.loadDate,
          isEncrypted          |-> Truthy(isEncrypted),
          applicationId        |-> OrElse(applicationId, StrEmpty).v ]

----------------------------------------------------------------------------
(* The cards that are read and the calls of parseAthenaTicketData *)

MaxPad == 1

\* File lengths around the length min the decoder asks for.
Lengths(min) == {min - 1, min, min + MaxPad}

Zeros(n) == [k \in 1..n |-> 0]

\* bytes with part written at index at, counted from 0.
Put(bytes, at, part) ==
    [k \in 1..Len(bytes) |->
       IF k - 1 >= at /\ k - 1 < at + Len(part) THEN part[k - at] ELSE bytes[k]]

Take(bytes, n) == SubSeq(bytes, 1, n)

\* File 2: the category byte at 9, the card number at 12..16.
File2Bytes(len, category, card) ==
    Take(Put(Put(Zeros(20 + MaxPad), 9, <<category>>), 12, card), len)

CardNumbers == {<<0, 2, 22, 57, 84>>, <<171, 205, 239, 1, 255>>}

File2s ==
    {NoFile}
      \cup {File(File2Bytes(len, category, <<0, 2, 22, 57, 84>>)) :
              len \in Lengths(20), category \in {0, 16, 51, 128}}
      \cup {File(File2Bytes(20, 0, card)) : card \in CardNumbers}

\* The char codes of "ZLZ".
ZLZ == <<90, 76, 90>>

\* File 4: a marker byte at 3, the type code at 4..6, the category at 9.
File4Bytes(len, marker, typeCode, category) ==
    Take(Put(Put(Put(Zeros(10 + MaxPad), 3, <<marker>>), 4, typeCode), 9, <<category>>), len)

File4s ==
    {NoFile}
      \cup {File(File4Bytes(len, kind[1], kind[2], category)) :
              len \in Lengths(10),
              kind \in {<<0, PKP>>, <<0, ZLZ>>, <<55, ZLZ>>},
              category \in {0, 1, 32, 51}}

\* File 12: absent, too short, 0, 5, 2^32 - 1, and 7 with bytes to spare.
File12s ==
    { NoFile, File(<<5, 0, 0>>), File(<<0, 0, 0, 0>>), File(<<5, 0, 0, 0>>),
      File(<<255, 255, 255, 255>>), File(<<7, 0, 0, 0>> \o Zeros(MaxPad)) }

\* Timestamps as the four bytes of file 16.
Never == <<0, 0, 0, 0>>                     \* 0
Unix2015Start == <<0, 142, 164, 84>>        \* 1420070400
Unix2015Next == <<1, 142, 164, 84>>         \* 1420070401
Unix2040Last == <<127, 126, 170, 131>>      \* 2208988799
Unix2040Start == <<128, 126, 170, 131>>     \* 2208988800
Athena2015Start == <<0, 229, 218, 33>>      \* 1420070400 - 852076800
Athena2015Next == <<1, 229, 218, 33>>       \* 1420070401 - 852076800
Athena2040Last == <<127, 213, 224, 80>>     \* 2208988799 - 852076800
Athena2040Start == <<128, 213, 224, 80>>    \* 2208988800 - 852076800
NovemberNoon == <<64, 193, 237, 106>>       \* 2026-11-06 12:00:00 UTC
OctoberLate == <<240, 114, 230, 106>>       \* 2026-10-31 23:00:00 UTC
DecemberDay == <<141, 250, 32, 107>>        \* 2026-12-15 08:30:05 UTC
AthenaNovemberNoon == <<64, 24, 36, 56>>    \* 2026-11-06 12:00:00 UTC - 852076800
AthenaOctoberLate == <<240, 201, 28, 56>>   \* 2026-10-31 23:00:00 UTC - 852076800
AllOnes == <<255, 255, 255, 255>>           \* 2^32 - 1

Timestamps ==
    { Never, Unix2015Start, Unix2015Next, Unix2040Last, Unix2040Start,
      Athena2015Start, Athena2015Next, Athena2040Last, Athena2040Start,
      NovemberNoon, OctoberLate, DecemberDay, AthenaNovemberNoon, AthenaOctoberLate,
      AllOnes }

\* One 32-byte product record: first byte, type byte, load timestamp at 4..7,
\* expiry timestamp at 8..11, trip count at 16.
ProductRecord(first, type, load, expiry, trips) ==
    Put(Put(Put(Put(Zeros(32), 0, <<first, type>>), 4, load), 8, expiry), 16, <<trips>>)

\* File 16 for its products: one or two records, cut to the length.
ProductFiles ==
    {File(Take(ProductRecord(first, type, NovemberNoon, DecemberDay, trips)
                 \o ProductRecord(second[1], second[2], Never, Never, second[3])
                 \o Zeros(MaxPad), len)) :
       len \in Lengths(32) \cup Lengths(64),
       first \in {1, 255}, type \in {49, 50, 0}, trips \in {0, 15},
       second \in {<<1, 49, 0>>, <<255, 50, 0>>, <<1, 50, 3>>}}

\* File 16 for its timestamps: with and without the trip count byte.
TimestampFiles ==
    LET pairs == {<<load, NovemberNoon>> : load \in Timestamps}
                   \cup {<<NovemberNoon, expiry>> : expiry \in Timestamps}
                   \cup {<<Never, Never>>, <<Never, DecemberDay>>, <<AllOnes, AllOnes>>}
    IN  {File(Take(ProductRecord(1, type, pair[1], pair[2], trips), len)) :
           len \in Lengths(12) \cup {32}, type \in {49, 50}, trips \in {0, 15},
           pair \in pairs}

\* The file map of the files that are present.
FileMap(file2, file4, file12, file16) ==
    LET all == (2 :> file2) @@ (4 :> file4) @@ (12 :> file12) @@ (16 :> file16)
    IN  Files([id \in {i \in DOMAIN all : all[i].present} |-> all[id].bytes])

\* The seconds since 1970 of the clock: 2026-11-06 09:00:00, 2026-11-06
\* 12:00:00 and 2026-11-30 23:59:59 UTC.
Clocks == {Wide(20763, 32400), Wide(20763, 43200), Wide(20787, 86399)}

\* UTC and UTC+2.
Offsets == {0, 7200}

SampleUid == <<"0", "4", "A", "1", "B", "2">>
SampleVersion ==
    Version(<<"D", "E", "S", "F", "i", "r", "e">>, <<"N", "X", "P">>, <<"8", " ", "K", "B">>, <<>>)
SampleApplication == <<"3", "1", "4", "5", "5", "3">>

Scan(tagId, desfireInfo, applicationId, isEncrypted, fileData, now, offset) ==
    [ tagId |-> tagId, desfireInfo |-> desfireInfo, applicationId |-> applicationId,
      isEncrypted |-> isEncrypted, fileData |-> fileData, now |-> now, offset |-> offset ]

\* A card with its files, read as encrypted or not.
CardScan(isEncrypted, fileData, now, offset) ==
    Scan(JsStr(SampleUid), SampleVersion, JsStr(SampleApplication), JsBool(isEncrypted),
         fileData, now, offset)

\* Reads that gave the UID only, cards with files 2 and 4, cards with files
\* 12 and 16, and cards with the timestamps of file 16 at every clock.
Scans ==
    {Scan(tagId, desfireInfo, applicationId, isEncrypted, NoFiles, Wide(20763, 43200), 0) :
       tagId \in {JsUndefined, JsStr(SampleUid)},
       desfireInfo \in {JsUndefined, SampleVersion},
       applicationId \in {JsUndefined, JsStr(SampleApplication)},
       isEncrypted \in {JsUndefined, JsBool(TRUE), JsBool(FALSE)}}
      \cup {CardScan(isEncrypted, FileMap(file2, file4, NoFile, NoFile), Wide(20763, 43200), 0) :
              isEncrypted \in BOOLEAN, file2 \in File2s, file4 \in File4s}
      \cup {CardScan(isEncrypted, FileMap(File(File2Bytes(20, 16, <<0, 2, 22, 57, 84>>)),
                                          NoFile, file12, file16), Wide(20763, 32400), 7200) :
              isEncrypted \in BOOLEAN, file12 \in File12s, file16 \in ProductFiles}
      \cup {CardScan(isEncrypted, FileMap(NoFile, NoFile, NoFile, file16), now, offset) :
              isEncrypted \in BOOLEAN, file16 \in TimestampFiles,
              now \in Clocks, offset \in Offsets}

NoScan == Scan(JsUndefined, JsUndefined, JsUndefined, JsUndefined, NoFiles, Zero, 0)

NoTicket == parseAthenaTicketData(JsUndefined, JsUndefined, JsUndefined, JsUndefined,
                                  NoFiles, Zero, 0)

TicketInit ==
    /\ ticketPc = "scan"
    /\ ticketIn = NoScan
    /\ ticketOut = NoTicket

\* The card is read: the arguments of the decoder and the clock are there.
CardRead ==
    /\ ticketPc = "scan"
    /\ \E scan \in Scans : ticketIn' = scan
    /\ ticketPc' = "read"
    /\ UNCHANGED ticketOut
    /\ UNCHANGED ticketOthers

\* parseAthenaTicketData runs on what was read, lines 141-490: for the first
\* time, or once more on the same arguments at the same or a later time of the
\* clock (Date.now(), line 412; new Date(), line 400), the clock and the
\* result of the first call being kept in ticketFirst.
ParseTicket ==
    /\ ticketPc \in {"read", "parsed"}
    /\ \E now \in Clocks \cup {ticketIn.now} :
         /\ IF ticketPc = "read" THEN now = ticketIn.now ELSE ~WideLess(now, ticketIn.now)
         /\ ticketIn' = [ticketIn EXCEPT !.now = now]
         /\ ticketOut' = parseAthenaTicketData(ticketIn.tagId, ticketIn.desfireInfo,
                                               ticketIn.applicationId, ticketIn.isEncrypted,
                                               ticketIn.fileData, now, ticketIn.offset)
    /\ ticketFirst' = IF ticketPc = "read" THEN ticketFirst
                      ELSE [now |-> ticketIn.now, out |-> ticketOut]
    /\ ticketPc' = IF ticketPc = "read" THEN "parsed" ELSE "again"
    /\ UNCHANGED <<tupleAgain, versionAgain>>
    /\ UNCHANGED <<tupleVars, fetchVars, mapVars, stopsVars, versionVars, scanVars>>

TicketNext == CardRead \/ ParseTicket

TicketIdle ==
    /\ ticketPc = "off"
    /\ ticketIn = NoScan
    /\ ticketOut = NoTicket

----------------------------------------------------------------------------
(* parseDESFireVersion, src/app/(tabs)/ticket.tsx:65-124 *)

DESFire == <<"D", "E", "S", "F", "i", "r", "e">>
NXPSemiconductors ==
    <<"N", "X", "P", " ", "S", "e", "m", "i", "c", "o", "n", "d", "u", "c", "t", "o", "r", "s">>

\* Every vendor code is taken for NXP.
ManufacturerOf_AnyVendor(versionData) == NXPSemiconductors

\* Lines 86-88.
ManufacturerOf(versionData) ==
    IF At(versionData, 0) = 4 THEN NXPSemiconductors ELSE Unknown

\* The subtype is looked at whatever the type byte holds.
CardTypeOf_AnyType(versionData) ==
    LET hwSubType == At(versionData, 2)
    IN  IF hwSubType = 1 THEN DESFire \o <<" ", "E", "V", "1">>
        ELSE IF hwSubType = 2 THEN DESFire \o <<" ", "E", "V", "2">>
        ELSE IF hwSubType = 3 THEN DESFire \o <<" ", "E", "V", "3">>
        ELSE DESFire \o <<" ", "(">> \o IntToChars(At(versionData, 3)) \o <<".">>
               \o IntToChars(At(versionData, 4)) \o <<")">>

\* Lines 91-101.
CardTypeOf(versionData) ==
    LET hwType    == At(versionData, 1)
        hwSubType == At(versionData, 2)
        hwMajor   == At(versionData, 3)
        hwMinor   == At(versionData, 4)
    IN  IF hwType # 1 THEN DESFire
        ELSE IF hwSubType = 1 THEN DESFire \o <<" ", "E", "V", "1">>
        ELSE IF hwSubType = 2 THEN DESFire \o <<" ", "E", "V", "2">>
        ELSE IF hwSubType = 3 THEN DESFire \o <<" ", "E", "V", "3">>
        ELSE DESFire \o <<" ", "(">> \o IntToChars(hwMajor) \o <<".">>
               \o IntToChars(hwMinor) \o <<")">>

\* 1 << n: the shift count is taken modulo 32 and the result is a signed
\* 32-bit integer, -2^31 for a count of 31.
ShiftLeftOne(n) ==
    LET count == n % 32
    IN  IF count = 31 THEN -(2^30) - 2^30 ELSE 2^count

\* Lines 104-110.
CapacityOf(versionData) ==
    LET hwStorageSize == At(versionData, 5)
        storagePower  == hwStorageSize \div 2
        storageBytes  == ShiftLeftOne(storagePower)
    IN  IF storageBytes >= 1024 THEN IntToChars(storageBytes \div 1024) \o <<" ", "K", "B">>
        ELSE IntToChars(storageBytes) \o <<" ", "b", "y", "t", "e", "s">>

\* The date is written whatever the year byte holds.
ProductionDateOf_AnyYear(versionData) ==
    LET prodWeek == At(versionData, 26)
        prodYear == At(versionData, 27)
        year     == IF prodYear < 50 THEN 2000 + prodYear ELSE 1900 + prodYear
    IN  IF prodWeek > 0 /\ prodWeek <= 53
        THEN <<"W", "e", "e", "k", " ">> \o IntToChars(prodWeek) \o <<",", " ">>
               \o IntToChars(year)
        ELSE <<>>

\* Lines 115-120.
ProductionDateOf(versionData) ==
    LET prodWeek == At(versionData, 26)
        prodYear == At(versionData, 27)
        year     == IF prodYear < 50 THEN 2000 + prodYear ELSE 1900 + prodYear
    IN  IF prodWeek > 0 /\ prodWeek <= 53 /\ prodYear > 0
        THEN <<"W", "e", "e", "k", " ">> \o IntToChars(prodWeek) \o <<",", " ">> \o IntToChars(year)
        ELSE <<>>

\* Lines 65-124.
parseDESFireVersion(versionData) ==
    [ cardType       |-> IF Len(versionData) >= 7 THEN CardTypeOf(versionData) ELSE DESFire,
      manufacturer   |-> IF Len(versionData) >= 7 THEN ManufacturerOf(versionData)
                         ELSE Unknown,
      capacity       |-> IF Len(versionData) >= 7 THEN CapacityOf(versionData) ELSE Unknown,
      productionDate |-> IF Len(versionData) >= 28 THEN ProductionDateOf(versionData)
                         ELSE <<>> ]

----------------------------------------------------------------------------
(* The version blocks that are read and the calls of parseDESFireVersion *)

\* A version block of len bytes: vendor, type, subtype, major and minor at
\* 0..4, the storage byte at 5, the week and the year of production at 26, 27.
VersionBytes(len, hardware, storage, week, year) ==
    Take(Put(Put(Put(Zeros(28 + MaxPad), 0, hardware), 5, <<storage>>), 26, <<week, year>>),
         len)

\* No bytes, and lengths around the 7 and the 28 bytes the decoder asks for.
VersionLengths == {0} \cup Lengths(7) \cup Lengths(28)

\* An NXP DESFire EV1, hardware version 1.0.
SampleHardware == <<4, 1, 1, 1, 0>>

\* Every storage byte; vendors, types, subtypes and versions at every length;
\* every year byte with weeks in and around 1..53.
VersionBlocks ==
    {VersionBytes(len, SampleHardware, storage, 10, 23) :
       len \in {7, 28}, storage \in 0..255}
      \cup {VersionBytes(len, <<vendor, type, subtype, release[1], release[2]>>, 24, 10, 23) :
              len \in VersionLengths, vendor \in {0, 4, 5}, type \in {0, 1, 2},
              subtype \in {0, 1, 2, 3, 4}, release \in {<<1, 0>>, <<0, 255>>}}
      \cup {VersionBytes(len, SampleHardware, 24, week, year) :
              len \in Lengths(28), week \in {0, 1, 10, 53, 54, 255}, year \in 0..255}

VersionInit ==
    /\ versionPc = "scan"
    /\ versionIn = <<>>
    /\ versionOut = parseDESFireVersion(<<>>)

\* The card answers the version command, lines 720-738.
VersionRead ==
    /\ versionPc = "scan"
    /\ \E versionData \in VersionBlocks : versionIn' = versionData
    /\ versionPc' = "read"
    /\ UNCHANGED versionOut
    /\ UNCHANGED versionOthers

\* parseDESFireVersion runs on the bytes, line 1190.
ParseVersion ==
    /\ versionPc = "read"
    /\ versionOut' = parseDESFireVersion(versionIn)
    /\ versionPc' = "parsed"
    /\ UNCHANGED versionIn
    /\ UNCHANGED versionOthers

\* parseDESFireVersion once more on the same bytes.
ParseVersionAgain ==
    /\ versionPc = "parsed"
    /\ versionPc' = "again"
    /\ versionAgain' = parseDESFireVersion(versionIn)
    /\ UNCHANGED <<versionIn, versionOut, tupleAgain, ticketFirst>>
    /\ UNCHANGED <<tupleVars, fetchVars, mapVars, stopsVars, ticketVars, scanVars>>

VersionNext == VersionRead \/ ParseVersion \/ ParseVersionAgain

VersionIdle ==
    /\ versionPc = "off"
    /\ versionIn = <<>>
    /\ versionOut = parseDESFireVersion(<<>>)

----------------------------------------------------------------------------
(* parseAthenaTicketData: claim C10 *)

\* C10: when the encryption flag is true, tripsRemaining is "encrypted" and
\* every file-derived field is at its default (cardId = UID, userCategory
\* "Unknown", no active and no expired product, not active, no remaining
\* time, no expiry and no load date), whatever the file map holds.
C10_EncryptedDefaults ==
    (ticketPc = "parsed" /\ ticketIn.isEncrypted = JsBool(TRUE)) =>
        /\ ticketOut.tripsRemaining = JsStr(Encrypted)
        /\ ticketOut.uid = OrElse(ticketIn.tagId, StrEmpty).v
        /\ ticketOut.cardId = ticketOut.uid
        /\ ticketOut.userCategory = Unknown
        /\ ticketOut.activeProduct.t = "null"
        /\ ticketOut.expiredProduct.t = "null"
        /\ ~ticketOut.isActive
        /\ ticketOut.remainingTimeSeconds = Zero
        /\ ticketOut.expiryDate.t = "null"
        /\ ticketOut.loadDate.t = "null"
        /\ ticketOut.isEncrypted

\* An encrypted read whose file map holds a student's file 2, five trips in
\* file 12 and a monthly pass in file 16 came out with the defaults.
C10_Witness ==
    /\ ticketPc = "parsed"
    /\ ticketIn.isEncrypted = JsBool(TRUE)
    /\ HasBytes(FileOf(ticketIn.fileData, 2), 20)
    /\ At(FileOf(ticketIn.fileData, 2).bytes, 9) = 16
    /\ FileOf(ticketIn.fileData, 12) = File(<<5, 0, 0, 0>>)
    /\ HasBytes(FileOf(ticketIn.fileData, 16), 64)
    /\ At(FileOf(ticketIn.fileData, 16).bytes, 1) = 49
    /\ ticketOut.tripsRemaining = JsStr(Encrypted)
    /\ ticketOut.userCategory = Unknown
    /\ ticketOut.cardId = SampleUid
    /\ ticketOut.loadDate.t = "null"

----------------------------------------------------------------------------
(* parseAthenaTicketData: claims C11, C12 *)

\* The read was decoded, with a file map and without the encryption flag.
Unencrypted ==
    /\ ticketPc = "parsed"
    /\ ticketIn.fileData.given
    /\ ~Truthy(ticketIn.isEncrypted)

\* The files of the card that was read.
File2 == FileOf(ticketIn.fileData, 2)
File4 == FileOf(ticketIn.fileData, 4)
File12 == FileOf(ticketIn.fileData, 12)
File16 == FileOf(ticketIn.fileData, 16)

\* The 32-byte record that starts at byte base of file 16 reads as a period
\* pass: no trips and a first byte other than 0xFF, or the type byte 0x31.
PeriodBytes(base) ==
    \/ File16.bytes[base + 17] = 0 /\ File16.bytes[base + 1] # 255
    \/ File16.bytes[base + 2] = 49

\* File 16 holds a first record, and it reads as a period pass.
PeriodFirst == HasBytes(File16, 32) /\ PeriodBytes(0)

\* File 16 holds a first record with a positive trip count that is no period
\* pass.
CountedFirst == HasBytes(File16, 32) /\ ~PeriodBytes(0) /\ File16.bytes[17] > 0

\* Bytes 0-3 of file 12 as an unsigned little-endian 32-bit integer.
File12Value == ToUint32(Int32LE(File12.bytes))

\* C11 as stated: on an unencrypted read without a period pass, tripsRemaining
\* is the unsigned little-endian value of bytes 0-3 of file 12 whenever file 12
\* holds 4 bytes, the value 0 included; the trip count of the active counted
\* product stands in only when file 12 is absent or shorter.
C11_AsStated ==
    (Unencrypted /\ ~PeriodFirst) =>
        /\ HasBytes(File12, 4) => ticketOut.tripsRemaining = Count(File12Value)
        /\ (~HasBytes(File12, 4) /\ CountedFirst) =>
               ticketOut.tripsRemaining = Count(WideOf(File16.bytes[17]))

\* The record at base is classified in product: "Monthly" for a period pass,
\* "<n> trips" with n trips for a positive trip count n, no product otherwise.
Classified(product, base) ==
    IF PeriodBytes(base) THEN product.t = "obj" /\ product.v.name = Monthly
    ELSE IF File16.bytes[base + 17] > 0
         THEN /\ product.t = "obj"
              /\ product.v.name = NatToChars(File16.bytes[base + 17]) \o TripsSuffix
              /\ product.v.trips = File16.bytes[base + 17]
    ELSE product.t = "null"

\* C12: on an unencrypted read with 32 bytes or more in file 16, the first
\* record gives activeProduct and, with 64 bytes, the second gives
\* expiredProduct: "Monthly" when the trip-count byte is 0 and the first byte
\* is not 0xFF or the type byte is 0x31, else "<n> trips" for a positive
\* trip-count byte n, else no product. A first record of type 0x31 makes
\* tripsRemaining "unlimited"; one of type 0x32 with 15 trips and no file 12
\* gives the product "15 trips" and tripsRemaining 15.
C12_Products ==
    (Unencrypted /\ HasBytes(File16, 32)) =>
        /\ Classified(ticketOut.activeProduct, 0)
        /\ Len(File16.bytes) >= 64 => Classified(ticketOut.expiredProduct, 32)
        /\ File16.bytes[2] = 49 => ticketOut.tripsRemaining = JsStr(Unlimited)
        /\ (File16.bytes[2] = 50 /\ File16.bytes[17] = 15 /\ ~File12.present) =>
               /\ ticketOut.activeProduct.t = "obj"
               /\ ticketOut.activeProduct.v.name = <<"1", "5", " ", "t", "r", "i", "p", "s">>
               /\ ticketOut.tripsRemaining = Count(WideOf(15))

\* A card without file 12 whose file 16 holds a 15-trip record of type 0x32
\* and a second record without trips and with the type byte 0x31 came out
\* with "15 trips", 15 trips remaining and "Monthly" as the expired product.
C12_Witness ==
    /\ Unencrypted
    /\ HasBytes(File16, 64)
    /\ ~File12.present
    /\ File16.bytes[2] = 50
    /\ File16.bytes[17] = 15
    /\ File16.bytes[34] = 49
    /\ ticketOut.activeProduct.t = "obj"
    /\ ticketOut.activeProduct.v.trips = 15
    /\ ticketOut.tripsRemaining = Count(WideOf(15))
    /\ ticketOut.expiredProduct.t = "obj"
    /\ ticketOut.expiredProduct.v.name = Monthly

----------------------------------------------------------------------------
(* parseDESFireVersion: claims C13, C14, C15, C16 *)

\* The decimal digits of twice a number, both with the last digit first.
RECURSIVE DoubleDigits(_, _)
DoubleDigits(digits, carry) ==
    IF digits = <<>> THEN (IF carry = 0 THEN <<>> ELSE <<carry>>)
    ELSE <<(2 * Head(digits) + carry) % 10>>
           \o DoubleDigits(Tail(digits), (2 * Head(digits) + carry) \div 10)

\* The decimal digits of 2^e, the last digit first.
RECURSIVE PowerOfTwoDigits(_)
PowerOfTwoDigits(e) ==
    IF e = 0 THEN <<1>> ELSE DoubleDigits(PowerOfTwoDigits(e - 1), 0)

\* 2^e written in decimal, whatever its size.
PowerOfTwoChars(e) ==
    LET digits == PowerOfTwoDigits(e)
    IN  [k \in 1..Len(digits) |-> DigitChar(digits[Len(digits) + 1 - k])]

\* The capacity label of 2^e bytes: in KB from 1024 bytes on.
CapacityLabel(e) ==
    IF e >= 10 THEN PowerOfTwoChars(e - 10) \o <<" ", "K", "B">>
    ELSE PowerOfTwoChars(e) \o <<" ", "b", "y", "t", "e", "s">>

\* C13 as stated: for a version block of 7 bytes or more and every storage
\* byte 0..255, the capacity is that of 2^(byte >> 1) bytes, "<2^e / 1024> KB"
\* from 1024 bytes on and "<2^e> bytes" below; the number is never negative
\* and never wraps.
C13_AsStated ==
    (versionPc = "parsed" /\ Len(versionIn) >= 7) =>
        versionOut.capacity = CapacityLabel(versionIn[6] \div 2)

\* "Week w, y"
WeekLabel(w, y) == <<"W", "e", "e", "k", " ">> \o NatToChars(w) \o <<",", " ">> \o NatToChars(y)

\* The year of a year byte: the 2000s below 50, the 1900s from 50 on.
YearOf(b) == IF b < 50 THEN 2000 + b ELSE 1900 + b

\* C14 as stated: for a version block of 28 bytes or more the production date
\* is "Week w, y" exactly when the week byte w is in 1..53, for every year
\* byte b, and empty exactly when w is 0 or above 53.
C14_AsStated ==
    (versionPc = "parsed" /\ Len(versionIn) >= 28) =>
        versionOut.productionDate =
            IF versionIn[27] \in 1..53 THEN WeekLabel(versionIn[27], YearOf(versionIn[28]))
            ELSE <<>>

\* C14, amended: for a version block of 28 bytes or more the production date
\* is "Week w, y" exactly when the week byte w is in 1..53 and the year byte
\* b is not 0, with y = 2000 + b for b below 50 and y = 1900 + b otherwise; it
\* is empty when w is 0 or above 53 and when b is 0.
C14_WeekAndYear ==
    (versionPc = "parsed" /\ Len(versionIn) >= 28) =>
        versionOut.productionDate =
            IF versionIn[27] \in 1..53 /\ versionIn[28] # 0
            THEN WeekLabel(versionIn[27], YearOf(versionIn[28]))
            ELSE <<>>

\* Week 10 of year 23 came out as "Week 10, 2023".
C14_Witness ==
    /\ versionPc = "parsed"
    /\ Len(versionIn) >= 28
    /\ versionIn[27] = 10
    /\ versionIn[28] = 23
    /\ versionOut.productionDate = <<"W", "e", "e", "k", " ", "1", "0", ",", " ", "2", "0", "2", "3">>

\* The card type label of the subtype byte: EV1, EV2, EV3, or the generic
\* label with the major and minor version.
SubTypeLabel(subtype, major, minor) ==
    CASE subtype = 1 -> <<"D", "E", "S", "F", "i", "r", "e", " ", "E", "V", "1">>
      [] subtype = 2 -> <<"D", "E", "S", "F", "i", "r", "e", " ", "E", "V", "2">>
      [] subtype = 3 -> <<"D", "E", "S", "F", "i", "r", "e", " ", "E", "V", "3">>
      [] OTHER -> <<"D", "E", "S", "F", "i", "r", "e", " ", "(">> \o NatToChars(major) \o <<".">>
                    \o NatToChars(minor) \o <<")">>

\* C15 as stated: for a version block of 7 bytes or more the card type label
\* follows from the subtype byte alone, for every value of the type byte.
C15_AsStated ==
    (versionPc = "parsed" /\ Len(versionIn) >= 7) =>
        versionOut.cardType = SubTypeLabel(versionIn[3], versionIn[4], versionIn[5])

\* C15, amended: for a version block of 7 bytes or more whose type byte is 1
\* the card type label follows from the subtype byte: 1 gives "DESFire EV1",
\* 2 "DESFire EV2", 3 "DESFire EV3", any other "DESFire (major.minor)" from
\* bytes 3 and 4; for any other type byte the label is "DESFire".
C15_TypeThenSubType ==
    (versionPc = "parsed" /\ Len(versionIn) >= 7) =>
        versionOut.cardType =
            IF versionIn[2] = 1
            THEN SubTypeLabel(versionIn[3], versionIn[4], versionIn[5])
            ELSE <<"D", "E", "S", "F", "i", "r", "e">>

\* A block of type 1 and subtype 4 with the version 0.255 came out as
\* "DESFire (0.255)".
C15_Witness ==
    /\ versionPc = "parsed"
    /\ Len(versionIn) >= 7
    /\ versionIn[2] = 1
    /\ versionIn[3] = 4
    /\ versionOut.cardType = <<"D", "E", "S", "F", "i", "r", "e", " ", "(", "0", ".", "2", "5", "5", ")">>

\* C16: parseDESFireVersion returns its four fields for a version block of
\* any length: below 7 bytes they are "DESFire", "Unknown", "Unknown" and "";
\* with 7 to 27 bytes the production date is ""; the manufacturer is "NXP
\* Semiconductors" exactly when there are 7 bytes or more and byte 0 is 0x04,
\* and "Unknown" otherwise.
C16_FieldByField ==
    versionPc = "parsed" =>
        /\ DOMAIN versionOut = {"cardType", "manufacturer", "capacity", "productionDate"}
        /\ Len(versionIn) < 7 =>
              /\ versionOut.cardType = <<"D", "E", "S", "F", "i", "r", "e">>
              /\ versionOut.capacity = <<"U", "n", "k", "n", "o", "w", "n">>
              /\ versionOut.productionDate = <<>>
        /\ Len(versionIn) < 28 => versionOut.productionDate = <<>>
        /\ versionOut.manufacturer =
              IF Len(versionIn) >= 7 /\ versionIn[1] = 4
              THEN <<"N", "X", "P", " ", "S", "e", "m", "i", "c", "o", "n", "d",
                     "u", "c", "t", "o", "r", "s">>
              ELSE <<"U", "n", "k", "n", "o", "w", "n">>

\* A block of 6 bytes that starts with 0x04 came out with the manufacturer
\* "Unknown".
C16_Witness ==
    /\ versionPc = "parsed"
    /\ Len(versionIn) = 6
    /\ versionIn[1] = 4
    /\ versionOut.manufacturer = <<"U", "n", "k", "n", "o", "w", "n">>
    /\ versionOut.cardType = <<"D", "E", "S", "F", "i", "r", "e">>
    /\ versionOut.productionDate = <<>>

----------------------------------------------------------------------------
(* parseAthenaTicketData: claims C17, C18 *)

NotSpace(c) == c # " "

\* s is laid out in blocks of 4 characters with one space between them: the
\* spaces are at every fifth place and nowhere else, and none ends s.
InBlocksOf4(s) ==
    /\ \A k \in 1..Len(s) : (s[k] = " ") <=> (k % 5 = 0)
    /\ s # <<>> => s[Len(s)] # " "

\* C17 as stated: on an unencrypted read with 20 bytes or more in file 2 the
\* card id is the prefix "3001 0100" and the upper-case hex of bytes 12..16 of
\* file 2, in blocks of exactly 4 characters with single spaces between them.
C17_AsStated ==
    (Unencrypted /\ HasBytes(File2, 20)) =>
        /\ SubSeq(ticketOut.cardId, 1, 9) = <<"3", "0", "0", "1", " ", "0", "1", "0", "0">>
        /\ SelectSeq(ticketOut.cardId, NotSpace)
             = <<"3", "0", "0", "1", "0", "1", "0", "0">>
                 \o ToUpperCase(HexOf(SubSeq(File2.bytes, 13, 17)))
        /\ InBlocksOf4(ticketOut.cardId)

\* The label of a category byte in the table of lines 127-138, or no label.
NoLabel == <<>>
TableLabel(byte) ==
    CASE byte \in {0, 1, 48} -> <<"A", "d", "u", "l", "t">>
      [] byte = 16 -> <<"S", "t", "u", "d", "e", "n", "t">>
      [] byte = 32 -> <<"S", "e", "n", "i", "o", "r">>
      [] byte = 64 -> <<"C", "h", "i", "l", "d">>
      [] byte = 80 -> <<"D", "i", "s", "a", "b", "l", "e", "d">>
      [] byte = 96 -> <<"M", "i", "l", "i", "t", "a", "r", "y">>
      [] byte = 112 -> <<"U", "n", "e", "m", "p", "l", "o", "y", "e", "d">>
      [] byte = 128 -> <<"U", "n", "i", "v", "e", "r", "s", "i", "t", "y", " ",
                         "s", "t", "u", "d", "e", "n", "t">>
      [] OTHER -> NoLabel

\* "University student", the label of 0x80.
StudentLabel == TableLabel(128)

\* File 4 holds 10 bytes or more and carries the personalization marker:
\* "PKP" at bytes 4..6, or 0x37 at byte 3.
TypeCodePKP == SubSeq(File4.bytes, 5, 7) = <<80, 75, 80>>
Personalized == HasBytes(File4, 10) /\ (TypeCodePKP \/ File4.bytes[4] = 55)

\* C18 as stated: on an unencrypted read whose file 4 carries the marker,
\* userCategory is the table label of byte 9 of file 4 when that byte is a
\* category code other than 0, "Adult" included, and "University student" when
\* that byte is 0, whatever file 2 said and whichever marker matched.
C18_AsStated ==
    (Unencrypted /\ Personalized) =>
        /\ (File4.bytes[10] # 0 /\ TableLabel(File4.bytes[10]) # NoLabel) =>
               ticketOut.userCategory = TableLabel(File4.bytes[10])
        /\ File4.bytes[10] = 0 => ticketOut.userCategory = StudentLabel

\* What file 2 says of the category: the table label of its byte 9, "Regular"
\* for a byte without a label, "Unknown" without 20 bytes of file 2.
File2Category ==
    IF ~HasBytes(File2, 20) THEN <<"U", "n", "k", "n", "o", "w", "n">>
    ELSE IF TableLabel(File2.bytes[10]) = NoLabel THEN <<"R", "e", "g", "u", "l", "a", "r">>
    ELSE TableLabel(File2.bytes[10])

\* C18, amended: on an unencrypted read whose file 4 (10 bytes or more)
\* carries the marker, the category is the table label of byte 9 of file 4
\* when that byte is not 0 and has a label, and what file 2 said otherwise;
\* when the category so found is "Adult" and the marker is the type code
\* "PKP", userCategory is "University student", and in every other case it is
\* the category so found.
C18_AdultWithPKP ==
    (Unencrypted /\ Personalized) =>
        LET found == IF File4.bytes[10] # 0 /\ TableLabel(File4.bytes[10]) # NoLabel
                     THEN TableLabel(File4.bytes[10])
                     ELSE File2Category
        IN  ticketOut.userCategory =
                IF found = <<"A", "d", "u", "l", "t">> /\ TypeCodePKP THEN StudentLabel
                ELSE found

\* A card whose file 2 says "Student" and whose file 4 has the type code
\* "PKP" and the category byte 0x01 came out as "University student".
C18_Witness ==
    /\ Unencrypted
    /\ Personalized
    /\ TypeCodePKP
    /\ File4.bytes[10] = 1
    /\ HasBytes(File2, 20)
    /\ File2.bytes[10] = 16
    /\ ticketOut.userCategory = StudentLabel

----------------------------------------------------------------------------
(* parseAthenaTicketData: claims C19, C20 *)

\* The unsigned little-endian 32-bit values of bytes 4..7 and 8..11 of file 16.
LoadRaw == ToUint32(Int32LE(SubSeq(File16.bytes, 5, 8)))
ExpiryRaw == ToUint32(Int32LE(SubSeq(File16.bytes, 9, 12)))

\* File 16 holds the timestamps of a record of type 0x31, and of another type.
PeriodTimestamps == HasBytes(File16, 12) /\ File16.bytes[2] = 49
CountedTimestamps == HasBytes(File16, 12) /\ File16.bytes[2] # 49

\* v lies between 2015-01-01 and 2040-01-01 (1420070400 and 2208988800), both
\* excluded.
Between2015And2040(v) == WideLess(Wide(16436, 0), v) /\ WideLess(v, Wide(25567, 0))

\* v counted from 1997-01-01 (852076800).
From1997(v) == WideAdd(Wide(9862, 0), v)

\* The instant a raw timestamp is shown as, with either epoch.
ShownInstant(v) == IF Between2015And2040(v) THEN v ELSE From1997(v)

\* C19 as stated: the expiry of a period pass is 23:59:59 of the last day of
\* the month of the decoded load instant, the instant shown as loadDate with
\* whichever epoch; the current date is used only when loadDate is null.
C19_AsStated ==
    (Unencrypted /\ PeriodTimestamps) =>
        ticketOut.expiryDate =
            JsStr(formatTimestamp(
                      EndOfMonthUnix(IF ticketOut.loadDate.t = "null" THEN ticketIn.now
                                     ELSE ShownInstant(LoadRaw),
                                     ticketIn.offset),
                      ticketIn.offset))

\* The date of a raw timestamp when the window is closed at 2015-01-01: a
\* Unix time from 1420070400 on and below 2208988800, else the same for the
\* time counted from 1997, else null.
From2015To2040(v) == ~WideLess(v, Wide(16436, 0)) /\ WideLess(v, Wide(25567, 0))
DateAsStated(v) ==
    IF From2015To2040(v) THEN JsStr(formatTimestamp(v, ticketIn.offset))
    ELSE IF From2015To2040(From1997(v))
         THEN JsStr(formatTimestamp(From1997(v), ticketIn.offset))
    ELSE JsNull

\* C20 as stated: the load timestamp (bytes 4..7) and the expiry of counted
\* trips (bytes 8..11), read as unsigned little-endian 32-bit values v, are
\* Unix times exactly when 1420070400 <= v < 2208988800, else v + 852076800
\* exactly when it lies in that window, else the date is null; both fields
\* follow the same rule.
C20_AsStated ==
    (Unencrypted /\ HasBytes(File16, 12)) =>
        /\ ticketOut.loadDate = DateAsStated(LoadRaw)
        /\ CountedTimestamps => ticketOut.expiryDate = DateAsStated(ExpiryRaw)

\* The date of a raw timestamp when the window is open at both ends.
DateInOpenWindow(v) ==
    IF Between2015And2040(v) THEN JsStr(formatTimestamp(v, ticketIn.offset))
    ELSE IF Between2015And2040(From1997(v))
         THEN JsStr(formatTimestamp(From1997(v), ticketIn.offset))
    ELSE JsNull

\* C20, amended: the load timestamp and the expiry of counted trips, read as
\* unsigned little-endian 32-bit values v, are Unix times exactly when
\* 1420070400 < v < 2208988800, else v + 852076800 exactly when it lies
\* strictly between the same two instants, else the date is null; both fields
\* follow the same rule and the sum does not wrap.
C20_OpenWindow ==
    (Unencrypted /\ HasBytes(File16, 12)) =>
        /\ ticketOut.loadDate = DateInOpenWindow(LoadRaw)
        /\ CountedTimestamps => ticketOut.expiryDate = DateInOpenWindow(ExpiryRaw)

\* A record of counted trips loaded at 1420070400 exactly and expiring on
\* 2026-11-06 12:00:00 UTC came out without a load date and with that expiry.
C20_Witness ==
    /\ Unencrypted
    /\ CountedTimestamps
    /\ ticketIn.offset = 0
    /\ LoadRaw = Wide(16436, 0)
    /\ ExpiryRaw = Wide(20763, 43200)
    /\ ticketOut.loadDate.t = "null"
    /\ ticketOut.expiryDate = 
           JsStr(<<"0", "6", "/", "1", "1", "/", "2", "0", "2", "6", " ",
                   "1", "2", ":", "0", "0", ":", "0", "0">>)

----------------------------------------------------------------------------
(* parseAthenaTicketData: claim C21 *)

\* An expiry instant is computed: the files are decoded and file 16 holds the
\* timestamps of a period pass, or an expiry that lies between 2015 and 2040
\* with either epoch.
HasExpiry ==
    /\ Unencrypted
    /\ \/ PeriodTimestamps
       \/ CountedTimestamps /\ (Between2015And2040(ExpiryRaw)
                                  \/ Between2015And2040(From1997(ExpiryRaw)))

\* The expiry instant that is computed: the end of the month of the load
\* timestamp, or of now, for a period pass, and the instant of bytes 8..11
\* otherwise.
ExpiryInstant ==
    IF PeriodTimestamps
    THEN EndOfMonthUnix(IF WideLess(Wide(16436, 0), LoadRaw) THEN LoadRaw ELSE ticketIn.now,
                        ticketIn.offset)
    ELSE ShownInstant(ExpiryRaw)

\* C21: isActive is true exactly when an expiry instant is computed and lies
\* strictly after now; remainingTimeSeconds is expiry minus now when isActive
\* and 0 otherwise, so isActive holds iff remainingTimeSeconds > 0, and
\* isActive implies a non-null expiryDate.
C21_ActiveIffFuture ==
    ticketPc = "parsed" =>
        /\ ticketOut.isActive <=> (HasExpiry /\ WideLess(ticketIn.now, ExpiryInstant))
        /\ ticketOut.remainingTimeSeconds =
               IF ticketOut.isActive THEN WideSub(ExpiryInstant, ticketIn.now) ELSE Zero
        /\ ticketOut.isActive <=> WideLess(Zero, ticketOut.remainingTimeSeconds)
        /\ ticketOut.isActive => ticketOut.expiryDate.t # "null"

\* A pass loaded on 2026-11-06 is read at 12:00:00 of that day: it is active
\* for the 24 days and 43199 seconds up to the end of November.
C21_Witness ==
    /\ ticketPc = "parsed"
    /\ HasExpiry
    /\ PeriodTimestamps
    /\ ticketIn.now = Wide(20763, 43200)
    /\ ticketIn.offset = 0
    /\ ticketOut.isActive
    /\ ticketOut.remainingTimeSeconds = Wide(24, 43199)
    /\ ticketOut.expiryDate.t = "str"

----------------------------------------------------------------------------
(* The decoders called twice: claim C22 *)

\* The fields of a TicketInfo that are computed from the clock: lines 413-419,
\* 440-446, 454-461 (isActive, remainingTimeSeconds) and 400-411 (the expiry
\* of a period pass without a load date of its own).
ClockFields == {"isActive", "remainingTimeSeconds", "expiryDate"}

\* The second call of parseAthenaTicketData was made.
TicketTwice == ticketPc = "again"

----------------------------------------------------------------------------
(* parseAthenaTicketData: claim C23 *)

\* The fields of a TicketInfo, lines 40-57.
TicketFields ==
    { "cardId", "uid", "cardType", "manufacturer", "capacity", "productionDate",
      "tripsRemaining", "activeProduct", "expiredProduct", "userCategory", "isActive",
      "remainingTimeSeconds", "expiryDate", "loadDate", "isEncrypted", "applicationId" }

\* The string that was passed, or the empty string when none was.
GivenString(x) == IF x.t = "str" THEN x.v ELSE <<>>

\* The version fields that were passed, or the "Unknown" ones when none were.
GivenVersion ==
    IF ticketIn.desfireInfo.t = "obj" THEN ticketIn.desfireInfo.v
    ELSE [ cardType |-> <<"U", "n", "k", "n", "o", "w", "n">>,
           manufacturer |-> <<"U", "n", "k", "n", "o", "w", "n">>,
           capacity |-> <<"U", "n", "k", "n", "o", "w", "n">>,
           productionDate |-> <<>> ]

\* The result has every field, the UID, the version fields and the
\* application id being the ones passed.
CompletePassedThrough ==
    /\ DOMAIN ticketOut = TicketFields
    /\ ticketOut.uid = GivenString(ticketIn.tagId)
    /\ ticketOut.cardType = GivenVersion.cardType
    /\ ticketOut.manufacturer = GivenVersion.manufacturer
    /\ ticketOut.capacity = GivenVersion.capacity
    /\ ticketOut.productionDate = GivenVersion.productionDate
    /\ ticketOut.applicationId = GivenString(ticketIn.applicationId)

\* Every file-derived field but tripsRemaining is at its default.
DefaultsBesideTrips ==
    /\ ticketOut.cardId = ticketOut.uid
    /\ ticketOut.userCategory = <<"U", "n", "k", "n", "o", "w", "n">>
    /\ ticketOut.activeProduct.t = "null"
    /\ ticketOut.expiredProduct.t = "null"
    /\ ~ticketOut.isActive
    /\ ticketOut.remainingTimeSeconds = Zero
    /\ ticketOut.expiryDate.t = "null"
    /\ ticketOut.loadDate.t = "null"

NoTrips == ticketOut.tripsRemaining.t = "num" /\ ticketOut.tripsRemaining.v = Zero

\* There is no file map, or each of the files 2, 4, 12 and 16 is absent or
\* shorter than the shortest length the decoder asks of it.
NothingToDecode ==
    \/ ~ticketIn.fileData.given
    \/ /\ ~HasBytes(File2, 20)
       /\ ~HasBytes(File4, 10)
       /\ ~HasBytes(File12, 4)
       /\ ~HasBytes(File16, 12)

\* C23 as stated: the result is complete with the version fields and the
\* application id passed through, and with no file map or only absent or
\* too short files every file-derived field is at its default, tripsRemaining
\* being 0.
C23_AsStated ==
    ticketPc = "parsed" =>
        /\ CompletePassedThrough
        /\ NothingToDecode => (DefaultsBesideTrips /\ NoTrips)

\* C23 with the default of tripsRemaining that line 183 sets, field by field:
\* the result is complete and passes the version fields and the application
\* id through; when nothing is decoded every file-derived field is at its
\* default, tripsRemaining being "encrypted" under the encryption flag and 0
\* otherwise; and on a decoded read each field is at its default when the
\* files it is read from are absent or too short.
C23_DefaultPerSource ==
    ticketPc = "parsed" =>
        /\ CompletePassedThrough
        /\ (NothingToDecode \/ Truthy(ticketIn.isEncrypted)) =>
              /\ DefaultsBesideTrips
              /\ IF Truthy(ticketIn.isEncrypted)
                 THEN ticketOut.tripsRemaining = JsStr(<<"e", "n", "c", "r", "y", "p", "t", "e", "d">>)
                 ELSE NoTrips
        /\ Unencrypted =>
              /\ ~HasBytes(File2, 20) => ticketOut.cardId = ticketOut.uid
              /\ (~HasBytes(File2, 20) /\ ~HasBytes(File4, 10)) =>
                     ticketOut.userCategory = <<"U", "n", "k", "n", "o", "w", "n">>
              /\ (~HasBytes(File12, 4) /\ ~HasBytes(File16, 32)) => NoTrips
              /\ ~HasBytes(File16, 32) =>
                     (ticketOut.activeProduct.t = "null" /\ ticketOut.expiredProduct.t = "null")
              /\ ~HasBytes(File16, 12) =>
                     /\ ~ticketOut.isActive
                     /\ ticketOut.remainingTimeSeconds = Zero
                     /\ ticketOut.expiryDate.t = "null"
                     /\ ticketOut.loadDate.t = "null"

\* An unencrypted read with a file 12 of 3 bytes and a file 16 of 31 bytes:
\* no trips and no products.
C23_Witness ==
    /\ Unencrypted
    /\ File12.present
    /\ Len(File12.bytes) = 3
    /\ File16.present
    /\ Len(File16.bytes) = 31
    /\ NoTrips
    /\ ticketOut.activeProduct.t = "null"
    /\ ticketOut.expiredProduct.t = "null"

----------------------------------------------------------------------------
(* parseAthenaTicketData: claim C25 *)

\* The first record of file 16 came out as a period pass: product "Monthly",
\* trips "unlimited".
ShownAsPeriodPass ==
    /\ Unencrypted
    /\ PeriodFirst
    /\ ticketOut.activeProduct.t = "obj"
    /\ ticketOut.activeProduct.v.name = <<"M", "o", "n", "t", "h", "l", "y">>
    /\ ticketOut.tripsRemaining = JsStr(<<"u", "n", "l", "i", "m", "i", "t", "e", "d">>)

\* 23:59:59 of the last day of the month of the load timestamp, or of now
\* when there is none after 2015-01-01, as it is shown.
EndOfMonthShown ==
    JsStr(formatTimestamp(
              EndOfMonthUnix(IF WideLess(Wide(16436, 0), LoadRaw) THEN LoadRaw
                             ELSE ticketIn.now,
                             ticketIn.offset),
              ticketIn.offset))

\* C25 as stated: whenever the first record of file 16 is classified as a
\* period pass, its type byte being 0x31 or not, the expiry is the end of the
\* calendar month and is not read from bytes 8..11.
C25_AsStated == ShownAsPeriodPass => ticketOut.expiryDate = EndOfMonthShown

----------------------------------------------------------------------------
(* getClosestStops: claim C26 *)

\* The row gives both coordinates, neither empty nor "0", and one of them is
\* no number.
Unparseable(c) ==
    /\ ~ZeroOrMissing(c)
    /\ parseFloat(JsStr(c.lat)).nan \/ parseFloat(JsStr(c.lng)).nan

\* The row gives both coordinates, neither empty nor "0", and both are numbers.
Located(c) ==
    /\ ~ZeroOrMissing(c)
    /\ ~parseFloat(JsStr(c.lat)).nan
    /\ ~parseFloat(JsStr(c.lng)).nan

\* The place in the list returned of the k-th stop, 0 when it is not there.
PlaceOf(k) ==
    IF IsReturned(k) THEN CHOOSE j \in 1..Len(stopsOut.val) : ReturnedIds[j] = StopIdOf(k)
    ELSE 0

\* C26 as stated: a stop with a present but unparseable coordinate is kept
\* with the sentinel distance (it is listed whenever no more than 30 stops
\* pass the filter) and stands behind every listed stop that has a computed
\* distance, however far that stop is from the reference point.
C26_AsStated ==
    stopsPc = "done" =>
        \A k \in 1..Len(stopsIn) : Unparseable(stopsIn[k]) =>
            /\ Cardinality({i \in 1..Len(stopsIn) : ~ZeroOrMissing(stopsIn[i])}) <= ClosestLimit
                 => IsReturned(k)
            /\ IsReturned(k) =>
                 /\ stopsOut.val[PlaceOf(k)].distance = DistanceText(Sentinel)
                 /\ \A i \in 1..Len(stopsIn) :
                      (Located(stopsIn[i]) /\ IsReturned(i)) => PlaceOf(i) < PlaceOf(k)

----------------------------------------------------------------------------
(* parseAthenaTicketData: claim C29 *)

\* C29 as stated: a ticket that is reported active has an active product,
\* whatever the length and the content of file 16.
C29_AsStated ==
    ticketPc = "parsed" => (ticketOut.isActive => ticketOut.activeProduct.t # "null")

----------------------------------------------------------------------------
(* getRoutesForStop: claim C24 *)

\* getRoutesForStop has returned.
RoutesDone == mapPc = "done" /\ mapFn = "getRoutesForStop"

\* A route code that is not empty: a string with characters, or a number
\* other than 0.
NonEmptyCode(x) == (x.t = "str" /\ x.v # <<>>) \/ (x.t = "num" /\ x.v # 0)

\* The route code an arrival carries: its field route_code, or its value at
\* index 1; undefined when it has neither.
ObservedCode(arr) ==
    LET named  == IF arr.t = "obj" THEN Member(arr.v, <<"r", "o", "u", "t", "e", "_", "c", "o", "d", "e">>) ELSE JsUndefined
        second == IF arr.t = "arr" /\ Len(arr.v) >= 2 THEN arr.v[2] ELSE JsUndefined
    IN  IF NonEmptyCode(named) THEN named
        ELSE IF NonEmptyCode(second) THEN second
        ELSE JsUndefined

\* The text of a route code.
CodeText(x) == IF x.t = "str" THEN x.v ELSE IntToChars(x.v)

\* The texts of the route codes of the arrivals, each once, in the order they
\* are first seen.
RECURSIVE ObservedCodes(_)
ObservedCodes(arrivals) ==
    IF arrivals = <<>> THEN <<>>
    ELSE LET before == ObservedCodes(SubSeq(arrivals, 1, Len(arrivals) - 1))
             code   == ObservedCode(arrivals[Len(arrivals)])
         IN  IF code.t = "undef" \/ (\E k \in 1..Len(before) : before[k] = CodeText(code))
             THEN before
             ELSE Append(before, CodeText(code))

\* The route codes of the payload that was answered; none after a failed
\* fetch and for a payload that is no list of arrivals.
PayloadCodes ==
    IF mapIn # NoShape /\ mapFetched.t = "arr" THEN ObservedCodes(mapFetched.v) ELSE <<>>

\* The last two characters of a text.
LastTwo(s) == IF Len(s) > 2 THEN SubSeq(s, Len(s) - 1, Len(s)) ELSE s

\* C24 as stated: getRoutesForStop returns one record per distinct non-empty
\* route code of the payload (field route_code, or index 1), in first-seen
\* order, with RouteCode = LineCode = the code and LineID = its last two
\* characters, and the empty list after a failed fetch.
C24_AsStated ==
    RoutesDone =>
        /\ ~mapOut.threw
        /\ Len(mapOut.val) = Len(PayloadCodes)
        /\ \A k \in 1..Len(mapOut.val) :
             /\ mapOut.val[k].RouteCode = JsStr(PayloadCodes[k])
             /\ mapOut.val[k].LineCode = JsStr(PayloadCodes[k])
             /\ mapOut.val[k].LineID = JsStr(LastTwo(PayloadCodes[k]))

----------------------------------------------------------------------------
(* The scan effect of the ticket screen, src/app/(tabs)/ticket.tsx:588-1266 *)

\* The effect runs at most this many times: once at mount and once more for
\* every change of its dependencies (line 1266).
MaxEffects == 2

Effects == 1..MaxEffects

\* The card that is tapped: its 28 version bytes, answered in frames of 7, 7
\* and 14 bytes, one application "1TA" and in it the files 12 (5 trips) and 16
\* (a record of 15 trips).
CardVersion == VersionBytes(28, SampleHardware, 24, 10, 23)

VersionFrame(part) ==
    CASE part = 1 -> SubSeq(CardVersion, 1, 7)
      [] part = 2 -> SubSeq(CardVersion, 8, 14)
      [] OTHER -> SubSeq(CardVersion, 15, 28)

CardApplication == <<"1", "T", "A">>

CardFileIds == <<12, 16>>

CardFile(fileId) ==
    IF fileId = 12 THEN <<5, 0, 0, 0>>
    ELSE ProductRecord(1, 50, NovemberNoon, DecemberDay, 15)

\* The file types the card may give a file in its settings: standard (0) or
\* value (2) for file 12, cyclic record (4) for file 16.
CardFileTypes(fileId) == IF fileId = 12 THEN {0, 2} ELSE {4}

\* The status words of a DESFire answer: success and authentication error.
Status9100 == <<145, 0>>
Status91AE == <<145, 174>>
Status91CA == <<145, 202>>

\* The seconds since 1970 and the time zone at the scans: 2026-11-06 12:00:00
\* UTC.
ScanClock == Wide(20763, 43200)

\* The locals of readWithIsoDep, lines 609-612, before the first command:
\* step is the command that is awaited, file the place in fileIds of the file
\* at work, fileType its type. failed and refused are not in the code: they
\* note that a command gave no answer, and that a file read was answered
\* 91 AE.
NewRead ==
    [ step          |-> "version1",
      file          |-> 0,
      fileType      |-> 0,
      versionData   |-> <<>>,
      applicationId |-> <<>>,
      isEncrypted   |-> FALSE,
      fileData      |-> <<>>,
      failed        |-> FALSE,
      refused       |-> FALSE ]

NoRead == [NewRead EXCEPT !.step = "none"]

\* No decoder was called yet.
NoDecoded ==
    [ versionData |-> <<>>, fileData |-> <<>>, failed |-> FALSE ]

\* The values of the state error: null and t.ticketReadError.
NoError == "null"
TicketReadError == "ticketReadError"

\* NfcManager.cancelTechnologyRequest(): a pending requestTechnology rejects
\* with UserCancel and the IsoDep session is closed.
CancelledPc(pc) ==
    [j \in Effects |-> IF nfcPending = j THEN "rejectedCancel" ELSE pc[j]]

\* if (isMounted), line 1188: the read is decoded and shown.
DecodesRead(mounted) == mounted

\* The test of line 1244 in a finally that restarts whatever isMounted says.
SchedulesRestart_Unmounted(mounted) == TRUE

\* if (isMounted), line 1244: the scan is restarted after a delay.
SchedulesRestart(mounted) == mounted

\* Lines 1190-1200: parseDESFireVersion and parseAthenaTicketData on what
\* readWithIsoDep returned.
DecodedTicket(read) ==
    LET desfireInfo == parseDESFireVersion(read.versionData)
    IN  parseAthenaTicketData(
            JsStr(SampleUid),
            Version(desfireInfo.cardType, desfireInfo.manufacturer, desfireInfo.capacity,
                    desfireInfo.productionDate),
            JsStr(read.applicationId), JsBool(read.isEncrypted), Files(read.fileData),
            ScanClock, 0)

Shown(info) == [t |-> "obj", v |-> info]

ScanInit ==
    /\ isMounted = [i \in Effects |-> FALSE]
    /\ scanTimeout = [i \in Effects |-> 0]
    /\ scanPc = [i \in Effects |-> "none"]
    /\ scanRead = [i \in Effects |-> NoRead]
    /\ nfcPending = 0
    /\ nfcHolder = 0
    /\ isScanning = FALSE
    /\ ticketInfo = JsNull
    /\ error = NoError
    /\ scanDecoded = NoDecoded

\* The effect runs, lines 588-592 and 1257, NFC being supported and enabled:
\* the first time at mount, and again when the instance before was cleaned up
\* for a change of the dependencies. startScan runs to its first await:
\* lines 1103-1111.
EffectRun(i) ==
    /\ scanPc[i] = "none"
    /\ i > 1 => (scanPc[i - 1] # "none" /\ ~isMounted[i - 1])
    /\ isMounted' = [isMounted EXCEPT ![i] = TRUE]
    /\ isScanning' = TRUE
    /\ error' = NoError
    /\ nfcPending' = i
    /\ scanPc' = [scanPc EXCEPT ![i] = "request"]
    /\ UNCHANGED <<scanTimeout, scanRead, nfcHolder, ticketInfo, scanDecoded>>
    /\ UNCHANGED scanOthers

\* The cleanup of the effect, lines 1259-1265 (and 561-565 at unmount).
EffectCleanup(i) ==
    /\ isMounted[i]
    /\ isMounted' = [isMounted EXCEPT ![i] = FALSE]
    /\ scanTimeout' = [scanTimeout EXCEPT ![i] = IF @ > 0 THEN @ - 1 ELSE 0]
    /\ scanPc' = CancelledPc(scanPc)
    /\ nfcPending' = 0
    /\ nfcHolder' = 0
    /\ UNCHANGED <<scanRead, screenVars, scanDecoded>>
    /\ UNCHANGED scanOthers

\* A card is held to the phone: the pending requestTechnology resolves.
TagDiscovered(i) ==
    /\ nfcPending = i
    /\ scanPc[i] = "request"
    /\ nfcPending' = 0
    /\ nfcHolder' = i
    /\ scanPc' = [scanPc EXCEPT ![i] = "granted"]
    /\ UNCHANGED <<isMounted, scanTimeout, scanRead, screenVars, scanDecoded>>
    /\ UNCHANGED scanOthers

\* The pending requestTechnology rejects with an error of the NFC adapter.
RequestFailed(i) ==
    /\ nfcPending = i
    /\ scanPc[i] = "request"
    /\ nfcPending' = 0
    /\ scanPc' = [scanPc EXCEPT ![i] = "rejectedError"]
    /\ UNCHANGED <<isMounted, scanTimeout, scanRead, nfcHolder, screenVars, scanDecoded>>
    /\ UNCHANGED scanOthers

\* The card is taken away from the phone.
TagLost ==
    /\ nfcHolder # 0
    /\ nfcHolder' = 0
    /\ UNCHANGED <<isMounted, scanTimeout, scanPc, scanRead, nfcPending, screenVars,
                   scanDecoded>>
    /\ UNCHANGED scanOthers

\* startScan resumes after requestTechnology resolved, lines 1113-1118: it
\* returns through finally (line 1242) when the instance was cleaned up and
\* asks for the tag otherwise.
TechnologyAcquired(i) ==
    /\ scanPc[i] = "granted"
    /\ IF isMounted[i]
       THEN /\ scanPc' = [scanPc EXCEPT ![i] = "getTag"]
            /\ UNCHANGED <<nfcPending, nfcHolder>>
       ELSE /\ scanPc' = [CancelledPc(scanPc) EXCEPT ![i] = "finally"]
            /\ nfcPending' = 0
            /\ nfcHolder' = 0
    /\ UNCHANGED <<isMounted, scanTimeout, scanRead, screenVars, scanDecoded>>
    /\ UNCHANGED scanOthers

\* startScan resumes in its catch after requestTechnology rejected, lines
\* 1230-1242: a cancellation is no error.
TechnologyRejected(i) ==
    /\ scanPc[i] \in {"rejectedCancel", "rejectedError"}
    /\ error' = IF scanPc[i] = "rejectedError" /\ isMounted[i] THEN TicketReadError
                ELSE error
    /\ scanPc' = [CancelledPc(scanPc) EXCEPT ![i] = "finally"]
    /\ nfcPending' = 0
    /\ nfcHolder' = 0
    /\ UNCHANGED <<isMounted, scanTimeout, scanRead, isScanning, ticketInfo, scanDecoded>>
    /\ UNCHANGED scanOthers

\* getTag resolves, lines 1118-1147: with the tag of the session, and with
\* that tag or with null when the card or the session is gone. With a tag and
\* isMounted readWithIsoDep is called and runs to its first command (lines
\* 594-672); the answers to the ISO selects of lines 672-702 are not used.
GotTag(i) ==
    /\ scanPc[i] = "getTag"
    /\ \E tag \in IF nfcHolder = i THEN {TRUE} ELSE {TRUE, FALSE} :
         IF tag /\ isMounted[i]
         THEN /\ scanPc' = [scanPc EXCEPT ![i] = "read"]
              /\ scanRead' = [scanRead EXCEPT ![i] = NewRead]
              /\ UNCHANGED <<nfcPending, nfcHolder>>
         ELSE /\ scanPc' = [CancelledPc(scanPc) EXCEPT ![i] = "finally"]
              /\ nfcPending' = 0
              /\ nfcHolder' = 0
              /\ UNCHANGED scanRead
    /\ UNCHANGED <<isMounted, scanTimeout, screenVars, scanDecoded>>
    /\ UNCHANGED scanOthers

\* The read goes on to the file behind the one at work, or ends (line 1099).
NextFile(read) ==
    IF read.file < Len(CardFileIds)
    THEN [read EXCEPT !.step = "settings", !.file = @ + 1]
    ELSE [read EXCEPT !.step = "return"]

\* fileData[fileId] = bytes
WithFile(read, fileId) ==
    [read EXCEPT !.fileData =
        [id \in DOMAIN read.fileData \cup {fileId} |->
           IF id = fileId THEN CardFile(fileId) ELSE read.fileData[id]]]

\* Lines 941-1050: the file at work is read by the command of its type, the
\* card answering the status sw.
ReadFile(read, sw) ==
    LET fileId == CardFileIds[read.file]
        seen   == [read EXCEPT !.refused = @ \/ sw = Status91AE]
    IN  IF read.fileType = 2
        THEN NextFile(IF sw = Status9100 THEN WithFile(seen, fileId) ELSE seen)
        ELSE IF read.fileType \in {3, 4}
        THEN NextFile(IF sw = Status9100 THEN WithFile(seen, fileId) ELSE seen)
        ELSE NextFile(IF sw = Status9100 THEN WithFile(seen, fileId)
                      ELSE IF sw = Status91AE THEN [seen EXCEPT !.isEncrypted = TRUE]
                      ELSE seen)

\* The answers of the card to the command that is awaited, lines 713-1056,
\* as the locals they leave. The answers to GetCardUID, GetKeySettings,
\* FreeMem and the first GetApplicationIDs (lines 809-826) are not used.
Answers(read) ==
    CASE read.step = "version1" ->
           {[read EXCEPT !.step = "version2", !.versionData = @ \o VersionFrame(1)]}
      [] read.step = "version2" ->
           {[read EXCEPT !.step = "version3", !.versionData = @ \o VersionFrame(2)]}
      [] read.step = "version3" ->
           {[read EXCEPT !.step = "applications", !.versionData = @ \o VersionFrame(3)]}
      [] read.step = "applications" ->
           {[read EXCEPT !.step = "select", !.applicationId = CardApplication]}
      [] read.step = "select" ->
           { [read EXCEPT !.step = "fileIds"],
             [read EXCEPT !.step = "return", !.isEncrypted = TRUE] }
      [] read.step = "fileIds" ->
           {[read EXCEPT !.step = "settings", !.file = 1]}
      [] read.step = "settings" ->
           {[read EXCEPT !.step = "file", !.fileType = type] :
              type \in CardFileTypes(CardFileIds[read.file])}
      [] read.step = "file" ->
           {ReadFile(read, sw) : sw \in {Status9100, Status91AE}}
      [] OTHER -> {read}

\* A command of readWithIsoDep is answered, or fails: tryCommand returns null
\* (lines 661-664, and 877-879 for the application ids) and, the session
\* being gone, so does every command behind it, which leaves the locals as
\* they are up to the return of line 1099.
CommandAnswered(i) ==
    /\ scanPc[i] = "read"
    /\ \/ /\ nfcHolder = i
          /\ \E next \in Answers(scanRead[i]) :
               /\ scanRead' = [scanRead EXCEPT ![i] = next]
               /\ scanPc' = [scanPc EXCEPT ![i] = IF next.step = "return" THEN "readDone"
                                                  ELSE "read"]
       \/ /\ nfcHolder # i
          /\ scanRead' = [scanRead EXCEPT ![i].step = "return", ![i].failed = TRUE]
          /\ scanPc' = [scanPc EXCEPT ![i] = "readDone"]
    /\ UNCHANGED <<isMounted, scanTimeout, nfcPending, nfcHolder, screenVars, scanDecoded>>
    /\ UNCHANGED scanOthers

\* startScan resumes after readWithIsoDep returned, lines 1148-1242: the
\* decoders run and the ticket is shown when isMounted; then finally.
ReadReturned(i) ==
    /\ scanPc[i] = "readDone"
    /\ IF DecodesRead(isMounted[i])
       THEN /\ ticketInfo' = Shown(DecodedTicket(scanRead[i]))
            /\ error' = NoError
            /\ scanDecoded' = [ versionData |-> scanRead[i].versionData,
                                fileData    |-> scanRead[i].fileData,
                                failed      |-> scanRead[i].failed ]
       ELSE UNCHANGED <<ticketInfo, error, scanDecoded>>
    /\ scanRead' = [scanRead EXCEPT ![i] = NoRead]
    /\ scanPc' = [CancelledPc(scanPc) EXCEPT ![i] = "finally"]
    /\ nfcPending' = 0
    /\ nfcHolder' = 0
    /\ UNCHANGED <<isMounted, scanTimeout, isScanning>>
    /\ UNCHANGED scanOthers

\* startScan resumes in finally after cancelTechnologyRequest settled, lines
\* 1244-1253.
ScanFinished(i) ==
    /\ scanPc[i] = "finally"
    /\ scanPc' = [scanPc EXCEPT ![i] = "idle"]
    /\ IF SchedulesRestart(isMounted[i])
       THEN /\ isScanning' = FALSE
            /\ scanTimeout' = [scanTimeout EXCEPT ![i] = @ + 1]
       ELSE UNCHANGED <<isScanning, scanTimeout>>
    /\ UNCHANGED <<isMounted, scanRead, nfcPending, nfcHolder, ticketInfo, error,
                   scanDecoded>>
    /\ UNCHANGED scanOthers

\* A restart timer fires, lines 1248-1252: startScan is called when
\* isMounted (nfcEnabled is true in this instance, line 589) and runs to its
\* first await, lines 1103-1111.
RestartTimerFired(i) ==
    /\ scanTimeout[i] > 0
    /\ scanTimeout' = [scanTimeout EXCEPT ![i] = @ - 1]
    /\ IF isMounted[i]
       THEN /\ isScanning' = TRUE
            /\ error' = NoError
            /\ nfcPending' = i
            /\ scanPc' = [scanPc EXCEPT ![i] = "request"]
       ELSE UNCHANGED <<isScanning, error, nfcPending, scanPc>>
    /\ UNCHANGED <<isMounted, scanRead, nfcHolder, ticketInfo, scanDecoded>>
    /\ UNCHANGED scanOthers

ScanNext ==
    \/ \E i \in Effects :
         \/ EffectRun(i) \/ EffectCleanup(i)
         \/ TagDiscovered(i) \/ RequestFailed(i)
         \/ TechnologyAcquired(i) \/ TechnologyRejected(i)
         \/ GotTag(i) \/ CommandAnswered(i) \/ ReadReturned(i)
         \/ ScanFinished(i) \/ RestartTimerFired(i)
    \/ TagLost

ScanIdle ==
    /\ isMounted = [i \in Effects |-> FALSE]
    /\ scanTimeout = [i \in Effects |-> 0]
    /\ scanPc = [i \in Effects |-> "off"]
    /\ scanRead = [i \in Effects |-> NoRead]
    /\ nfcPending = 0
    /\ nfcHolder = 0
    /\ isScanning = FALSE
    /\ ticketInfo = JsNull
    /\ error = NoError
    /\ scanDecoded = NoDecoded

----------------------------------------------------------------------------
\* C27: the decoders run only on a read that was completed: when the read is
\* cancelled or a command of it fails mid-way, parseDESFireVersion and
\* parseAthenaTicketData are not called on the version bytes and the file map
\* collected so far, and no TicketInfo made of them is stored.
C27_AsStated == ~scanDecoded.failed

\* C28: whenever the read of a file of the selected application is answered
\* 91 AE, whichever command reads a file of that type, readWithIsoDep returns
\* isEncrypted = true.
C28_AsStated ==
    \A i \in Effects :
      (scanPc[i] = "readDone" /\ scanRead[i].refused) => scanRead[i].isEncrypted

\* An effect instance that ran and was cleaned up.
CleanedUp(i) == scanPc[i] # "none" /\ scanPc[i] # "off" /\ ~isMounted[i]

\* At most one restart timer of an instance is pending, and only of a mounted
\* instance whose startScan call has ended.
OneRestartTimer ==
    \A i \in Effects :
      /\ scanTimeout[i] <= 1
      /\ scanTimeout[i] > 0 => (isMounted[i] /\ scanPc[i] = "idle")

\* A step leaves a cleaned up instance without a new timer and without a new
\* startScan call, and a step of that instance leaves the screen state as it
\* is.
CleanedUpIsQuiet ==
    \A i \in Effects :
      CleanedUp(i) =>
        /\ scanTimeout'[i] <= scanTimeout[i]
        /\ scanPc'[i] = "request" => scanPc[i] = "request"
        /\ (scanPc'[i] # scanPc[i] \/ scanRead'[i] # scanRead[i]) => UNCHANGED screenVars

\* C30: while an effect instance stays mounted every scan attempt of it that
\* finished is followed by a new startScan in the end, with at most one
\* restart timer pending at any time; an instance that was cleaned up never
\* schedules or starts another scan and never writes ticketInfo, error or
\* isScanning.
C30_ScanLoop ==
    /\ []OneRestartTimer
    /\ [][CleanedUpIsQuiet]_vars
    /\ \A i \in Effects :
         (isMounted[i] /\ scanPc[i] = "finally") ~> (~isMounted[i] \/ scanPc[i] = "request")

\* The second instance finished a scan attempt and its restart timer is
\* pending, while the read of the first instance, cleaned up, returns.
C30_Witness ==
    /\ ~isMounted[1] /\ scanPc[1] = "readDone"
    /\ isMounted[2] /\ scanTimeout[2] = 1

----------------------------------------------------------------------------
(* The specifications: one per part of the program, the other parts idle *)

\* No decoder has been called a second time.
NoneAgain ==
    /\ tupleAgain = <<>>
    /\ versionAgain = parseDESFireVersion(<<>>)
    /\ ticketFirst = [now |-> Zero, out |-> ticketOut]

InitTuple ==
    TupleInit /\ FetchIdle /\ MapIdle /\ StopsIdle /\ TicketIdle /\ VersionIdle /\ NoneAgain
      /\ ScanIdle

SpecTuple == InitTuple /\ [][TupleNext]_vars

InitFetch ==
    FetchInit /\ TupleIdle /\ MapIdle /\ StopsIdle /\ TicketIdle /\ VersionIdle /\ NoneAgain
      /\ ScanIdle

SpecFetch == InitFetch /\ [][FetchNext]_vars

InitMap ==
    MapInit /\ TupleIdle /\ FetchIdle /\ StopsIdle /\ TicketIdle /\ VersionIdle /\ NoneAgain
      /\ ScanIdle

SpecMap == InitMap /\ [][MapNext]_vars

InitStops ==
    StopsInit /\ TupleIdle /\ FetchIdle /\ MapIdle /\ TicketIdle /\ VersionIdle /\ NoneAgain
      /\ ScanIdle

SpecStops == InitStops /\ [][StopsNext]_vars

InitTicket ==
    TicketInit /\ TupleIdle /\ FetchIdle /\ MapIdle /\ StopsIdle /\ VersionIdle /\ NoneAgain
      /\ ScanIdle

SpecTicket == InitTicket /\ [][TicketNext]_vars

InitVersion ==
    VersionInit /\ TupleIdle /\ FetchIdle /\ MapIdle /\ StopsIdle /\ TicketIdle /\ NoneAgain
      /\ ScanIdle

SpecVersion == InitVersion /\ [][VersionNext]_vars

InitScan ==
    ScanInit /\ TupleIdle /\ FetchIdle /\ MapIdle /\ StopsIdle /\ TicketIdle /\ VersionIdle
      /\ NoneAgain

SpecScan == InitScan /\ [][ScanNext]_vars

\* The scan effect with the event loop at work: the continuation of a settled
\* cancelTechnologyRequest (line 1242) and the callback of a pending timer
\* (line 1248) are run in the end.
SpecScanLoop ==
    /\ InitScan
    /\ [][ScanNext]_vars
    /\ \A i \in Effects : WF_vars(ScanFinished(i)) /\ WF_vars(RestartTimerFired(i))

\* The three decoders, each called once and once more.
InitDecoders ==
    /\ \E decoder \in {"parseTupleFormat", "parseDESFireVersion", "parseAthenaTicketData"} :
         /\ IF decoder = "parseTupleFormat" THEN TupleInit ELSE TupleIdle
         /\ IF decoder = "parseDESFireVersion" THEN VersionInit ELSE VersionIdle
         /\ IF decoder = "parseAthenaTicketData" THEN TicketInit ELSE TicketIdle
    /\ FetchIdle /\ MapIdle /\ StopsIdle /\ NoneAgain /\ ScanIdle

DecodersNext == TupleNext \/ VersionNext \/ TicketNext

SpecDecoders == InitDecoders /\ [][DecodersNext]_vars

\* The whole program: any one part at work.
Init ==
    InitTuple \/ InitFetch \/ InitMap \/ InitStops \/ InitTicket \/ InitVersion \/ InitScan

Next ==
    TupleNext \/ FetchNext \/ MapNext \/ StopsNext \/ TicketNext \/ VersionNext \/ ScanNext

Spec == Init /\ [][Next]_vars

====
